---- MODULE Spec2Model ----
(***************************************************************************)
(* Model of the batch-checking pipeline of domiro-org/web:                 *)
(*   - the verdict reconciler            (shared/utils/checkPipeline.ts)   *)
(*   - the bounded concurrency scheduler (shared/hooks/useConcurrentQueue) *)
(*   - the DoH pre-check and its retry   (shared/utils/dohQuery.ts)        *)
(*   - the RDAP lookup and its retry     (shared/utils/rdapQuery.ts)       *)
(*   - the reducer and the DNS / RDAP pages                                *)
(*     (shared/hooks/useAppState.tsx, pages/DnsPage.tsx, RdapPage.tsx)     *)
(*   - the RDAP tasks on the scheduler, the failing batch                  *)
(*   - handleCheck of the single-component flow (App.tsx)                  *)
(*   - the input actions of the reducer over spelled domain items          *)
(*   - the RDAP client with the IANA bootstrap index (unnamed/part_012)    *)
(* Each component has its own variables and its own specification; a       *)
(* specification keeps the variables of the other components constant.     *)
(***************************************************************************)
EXTENDS Integers, Sequences, FiniteSets, TLC

VARIABLES
  vStatus,      \* reconciler: the dns argument
  vRdap,        \* reconciler: the rdap argument, <<>> for null, <<r>> otherwise
  vVerdict      \* reconciler: <<>> before the call, the one-element tuple of the verdict after it

VARIABLES
  activeCountRef,  \* scheduler: activeCountRef.current
  queueRef,        \* scheduler: queueRef.current, the waiting run closures (task ids)
  task,            \* scheduler: task id -> "new" | "queued" | "running" | "settled" | "finished" | "dropped"
  outcome,         \* scheduler: task id -> "none" | "fulfilled" | "rejected" (how task() settled)
  promise          \* scheduler: task id -> "none" | "pending" | "fulfilled" | "rejected" (enqueue's promise)

VARIABLES
  dPreferred,   \* DoH: the preferredProviders argument
  dPc,          \* DoH: "ns" | "soa" (a request is awaited) | "returned" (runDohQuery
                \*      has returned) | "delay" (backoff) | "done" | "off"
  dAttempt,     \* DoH: attempt of runDohQueryWithRetry
  dIdx,         \* DoH: position of the for-of loop in providerSequence
  dLastDetail,  \* DoH: lastDetail, <<>> for undefined
  dLog,         \* DoH: the requests of the current runDohQuery call and their responses
  dResult,      \* DoH: the value returned by the current runDohQuery call, <<>> before
  dCalls,       \* DoH: the results of the runDohQuery calls made so far
  dWaits,       \* DoH: the delays awaited so far (ms)
  dReturn       \* DoH: the value returned by runDohQueryWithRetry, <<>> before

VARIABLES
  state,                \* app: the AppState held by useReducer (input, dns, rdap)
  now,                  \* app: the value Date.now() returns
  batches,              \* app: the batches started so far, each with the closure
                        \*      variables of executeDnsBatch / runRdapBatch
  rdapPageMount,        \* app: the mount of RdapPage that is on the screen
  pendingUpdateIdsRef,  \* app: mount of RdapPage -> its pendingUpdateIdsRef.current
  rafIdRef,             \* app: mount of RdapPage -> its rafIdRef.current: 0 for null,
                        \*      else the batch whose flushUpdates was handed to
                        \*      requestAnimationFrame
  rafCallbacks          \* app: batch -> number of its flushUpdates callbacks the
                        \*      browser still has to call

VARIABLES
  rDns,         \* RDAP: the dns status of the row the query is made for
  rPc,          \* RDAP: "request" (runRdapQuery is awaited) | "delay" (backoff) |
                \*       "done" | "rejected" (runRdapQueryWithRetry has settled) |
                \*       "row" | "fallback-row" (the task has written the row) | "off"
  rAttempt,     \* RDAP: attempt of runRdapQueryWithRetry
  rLog,         \* RDAP: the responses so far, each with what runRdapQuery made of it
  rWaits,       \* RDAP: the delays awaited so far (ms)
  rReturn,      \* RDAP: << result >> once runRdapQueryWithRetry has returned one
  rRow          \* RDAP: <<>> before the task of runRdapBatch writes the row, then <<row>>

VARIABLES
  nInput,       \* normalizeDomains: the input array; an entry is the sequence of its characters
  nPc,          \* normalizeDomains: "ready" | "normalized" | "renormalized" | "off"
  nResult,      \* normalizeDomains: <<>> before the call, then <<its result>>
  nAgain        \* normalizeDomains: <<>>, then <<the result for the ascii values of nResult>>

VARIABLES
  sMeta,        \* sessionStorage: <<>> when SESSION_STORAGE_KEY is absent, else <<metadata>>
  sChunks,      \* sessionStorage: chunk index -> the chunk stored under that chunk key
  pPc,          \* persistInput: the position of the call in progress, "idle" between calls
  pLocals       \* persistInput: the local variables of the call in progress

VARIABLES
  qAttempt,     \* RDAP task on the queue: task id -> attempts of runRdapQueryWithRetry that have ended
  qWaitMs,      \* RDAP task on the queue: task id -> the argument of the delay() in progress, 0 when none
  qElapsedMs    \* RDAP task on the queue: task id -> time since that delay() was called

VARIABLES
  aRunIdRef,    \* App (single component): runIdRef.current
  aCalls,       \* App: the handleCheck calls in the order they began, each with
                \*      its runId, its position and its locals
  aView         \* App: the React state handleCheck writes

VARIABLES
  iState,       \* input reducer: [input, runId, rows], the part of AppState the input actions write
  iLast,        \* input reducer: the action dispatched last, <<>> before the first
  iEdits        \* input reducer: the number of actions dispatched

VARIABLES
  bPromise,     \* RDAP bootstrap: rdapServiceIndexPromise, 0 for null, else the number of its load
  bLoads,       \* RDAP bootstrap: the bootstrap requests made, "pending" | "ok" | "failed" each
  bCalls        \* RDAP bootstrap: the runRdapQueryWithRetry calls, in the order they began

reconcileVars == <<vStatus, vVerdict, vRdap>>

rdapVars == <<rDns, rPc, rAttempt, rLog, rWaits, rReturn, rRow>>

appVars == <<state, now, batches, rdapPageMount, pendingUpdateIdsRef, rafIdRef, rafCallbacks>>

dohVars == <<dPreferred, dPc, dAttempt, dIdx, dLastDetail, dLog, dResult, dCalls, dWaits, dReturn>>

queueVars == <<activeCountRef, queueRef, task, outcome, promise>>

normVars == <<nInput, nPc, nResult, nAgain>>

persistVars == <<sMeta, sChunks, pPc, pLocals>>

lookupVars == <<qAttempt, qWaitMs, qElapsedMs>>

checkVars == <<aRunIdRef, aCalls, aView>>

inputVars == <<iState, iLast, iEdits>>

bootVars == <<bPromise, bLoads, bCalls>>

vars == <<reconcileVars, queueVars, dohVars, appVars, rdapVars, normVars, persistVars, lookupVars, checkVars, inputVars, bootVars>>

(***************************************************************************)
(* The values a component's variables keep in the specifications of the    *)
(* other components.                                                       *)
(***************************************************************************)
VerdictOff == vStatus = "none" /\ vRdap = <<>> /\ vVerdict = <<>>

QueueOff ==
  /\ activeCountRef = 0
  /\ queueRef = <<>>
  /\ task = <<>>
  /\ outcome = <<>>
  /\ promise = <<>>

DohOff ==
  /\ dPreferred = <<>>
  /\ dPc = "off"
  /\ dAttempt = 0
  /\ dIdx = 0
  /\ dLastDetail = <<>>
  /\ dLog = <<>>
  /\ dResult = <<>>
  /\ dCalls = <<>>
  /\ dWaits = <<>>
  /\ dReturn = <<>>

RdapOff ==
  /\ rDns = "none"
  /\ rPc = "off"
  /\ rAttempt = 0
  /\ rLog = <<>>
  /\ rWaits = <<>>
  /\ rReturn = <<>>
  /\ rRow = <<>>

AppOff ==
  /\ state = <<>>
  /\ now = 0
  /\ batches = <<>>
  /\ rdapPageMount = 0
  /\ pendingUpdateIdsRef = <<>>
  /\ rafIdRef = <<>>
  /\ rafCallbacks = <<>>

NormOff == nInput = <<>> /\ nPc = "off" /\ nResult = <<>> /\ nAgain = <<>>

PersistOff == sMeta = <<>> /\ sChunks = <<>> /\ pPc = "off" /\ pLocals = <<>>

BootOff == bPromise = 0 /\ bLoads = <<>> /\ bCalls = <<>>

InputOff == iState = <<>> /\ iLast = <<>> /\ iEdits = 0

CheckOff == aRunIdRef = 0 /\ aCalls = <<>> /\ aView = <<>>

LookupOff == qAttempt = <<>> /\ qWaitMs = <<>> /\ qElapsedMs = <<>>

(***************************************************************************)
(* Bounds                                                                  *)
(***************************************************************************)
\* the concurrency the queue is created with
QueueConcurrency == 2

\* number of tasks submitted to the queue
MaxTasks == 4

\* the last millisecond of the clock, which has advanced by one at each click
MaxNow == 3

(***************************************************************************)
(* Shared value sets                                                       *)
(***************************************************************************)
DnsStatuses == {"has-ns", "no-ns", "nxdomain", "error"}

Verdicts == {"available", "taken", "undetermined", "rdap-unsupported"}

\* JavaScript's boolean | null for RdapCheckResult.available
Tri == {"true", "false", "null"}

\* HTTP statuses used as inputs: the ones runRdapQuery distinguishes and one
\* representative of ">= 500" and of "other".
HttpStatuses == {200, 404, 429, 400, 405, 501, 503, 302}

(***************************************************************************)
(* checkPipeline.ts                                                        *)
(***************************************************************************)
\* Mutant: every row is an RDAP candidate.
shouldRunRdap_Always(status) ==
  status \in {"has-ns", "no-ns", "nxdomain", "error"}

shouldRunRdap(status) ==
  status = "no-ns" \/ status = "nxdomain" \/ status = "error"

deriveDnsVerdict(status) ==
  IF status = "has-ns" THEN "taken"
  ELSE IF status = "error" THEN "undetermined"
  ELSE "available"

\* A detail text is a sequence of message tokens; the empty sequence is
\* undefined.  "a · b" is the concatenation.
mergeDetails(baseDetail, appendDetail) ==
  IF baseDetail # <<>> /\ appendDetail # <<>> THEN baseDetail \o appendDetail
  ELSE IF appendDetail # <<>> THEN appendDetail
  ELSE baseDetail

\* Mutant: the null branch delegates to the DNS-only rule.
deriveVerdictWithRdap_NullAsDns(status, rdap) ==
  IF rdap = <<>> THEN deriveDnsVerdict(status)
  ELSE IF rdap[1].unsupported THEN "rdap-unsupported"
  ELSE IF rdap[1].available = "true" THEN "available"
  ELSE IF rdap[1].available = "false" THEN "taken"
  ELSE IF rdap[1].status = 429 THEN "undetermined"
  ELSE deriveDnsVerdict(status)

\* Mutant: availability is looked at before the unsupported flag.
deriveVerdictWithRdap_AvailFirst(status, rdap) ==
  IF rdap = <<>> THEN
    IF status = "has-ns" THEN "taken" ELSE "undetermined"
  ELSE IF rdap[1].available = "true" THEN "available"
  ELSE IF rdap[1].available = "false" THEN "taken"
  ELSE IF rdap[1].unsupported THEN "rdap-unsupported"
  ELSE IF rdap[1].status = 429 THEN "undetermined"
  ELSE deriveDnsVerdict(status)

deriveVerdictWithRdap(status, rdap) ==
  IF rdap = <<>> THEN
    IF status = "has-ns" THEN "taken"
    ELSE IF status = "error" THEN "undetermined"
    ELSE "undetermined"
  ELSE IF rdap[1].unsupported THEN "rdap-unsupported"
  ELSE IF rdap[1].available = "true" THEN "available"
  ELSE IF rdap[1].available = "false" THEN "taken"
  ELSE IF rdap[1].status = 429 THEN "undetermined"
  ELSE deriveDnsVerdict(status)


(***************************************************************************)
(* useConcurrentQueue.ts                                                   *)
(* A task is the async function handed to enqueue.  run() calls it at      *)
(* once; its promise settles later (TaskSettles); the reactions            *)
(* .then(resolve).catch(reject) and .finally(...) are later microtasks     *)
(* (SettleEnqueuePromise, Finally).                                        *)
(***************************************************************************)
TaskIds == 1..MaxTasks

\* Mutant: processQueue takes the closure pushed last.
processQueue_Lifo(active, q) ==
  IF active >= QueueConcurrency THEN [active |-> active, q |-> q, started |-> {}]
  ELSE IF q = <<>> THEN [active |-> active, q |-> q, started |-> {}]
  ELSE [active |-> active + 1, q |-> SubSeq(q, 1, Len(q) - 1), started |-> {q[Len(q)]}]

\* processQueue: start the head of the queue if a slot is free
processQueue(active, q) ==
  IF active >= QueueConcurrency THEN [active |-> active, q |-> q, started |-> {}]
  ELSE IF q = <<>> THEN [active |-> active, q |-> q, started |-> {}]
  ELSE [active |-> active + 1, q |-> Tail(q), started |-> {Head(q)}]

\* Mutant: the slot test of enqueue is off by one.
enqueue_OffByOne(i, active, q) ==
  IF active <= QueueConcurrency
  THEN [active |-> active + 1, q |-> q, started |-> {i}]
  ELSE [active |-> active, q |-> Append(q, i), started |-> {}]

\* enqueue: run the task at once if a slot is free, else push its closure
enqueue(i, active, q) ==
  IF active < QueueConcurrency
  THEN [active |-> active + 1, q |-> q, started |-> {i}]
  ELSE [active |-> active, q |-> Append(q, i), started |-> {}]

Max(a, b) == IF a >= b THEN a ELSE b

Min(a, b) == IF a <= b THEN a ELSE b

InitQueue ==
  /\ activeCountRef = 0
  /\ queueRef = <<>>
  /\ task = [i \in TaskIds |-> "new"]
  /\ outcome = [i \in TaskIds |-> "none"]
  /\ promise = [i \in TaskIds |-> "none"]
  /\ VerdictOff
  /\ DohOff
  /\ AppOff
  /\ RdapOff
  /\ NormOff
  /\ PersistOff
  /\ LookupOff
  /\ CheckOff
  /\ InputOff
  /\ BootOff

\* enqueue(task): tasks are submitted in the order of their ids
Enqueue(i) ==
  /\ task[i] = "new"
  /\ \A j \in TaskIds : j < i => task[j] # "new"
  /\ LET r == enqueue(i, activeCountRef, queueRef) IN
       /\ activeCountRef' = r.active
       /\ queueRef' = r.q
       /\ task' = [task EXCEPT ![i] = IF i \in r.started THEN "running" ELSE "queued"]
  /\ promise' = [promise EXCEPT ![i] = "pending"]
  /\ UNCHANGED outcome
  /\ UNCHANGED <<reconcileVars, dohVars, appVars, rdapVars, normVars, persistVars, lookupVars, checkVars, inputVars, bootVars>>

\* the promise returned by task() fulfils or rejects
TaskSettles(i, o) ==
  /\ task[i] = "running"
  /\ task' = [task EXCEPT ![i] = "settled"]
  /\ outcome' = [outcome EXCEPT ![i] = o]
  /\ UNCHANGED <<activeCountRef, queueRef, promise>>
  /\ UNCHANGED <<reconcileVars, dohVars, appVars, rdapVars, normVars, persistVars, lookupVars, checkVars, inputVars, bootVars>>

\* Mutant: a rejected task rejects every promise that is still pending.
SettleEnqueuePromise_RejectAll(i) ==
  /\ task[i] = "settled"
  /\ promise[i] = "pending"
  /\ promise' = [j \in TaskIds |->
                   IF j = i THEN outcome[i]
                   ELSE IF outcome[i] = "rejected" /\ promise[j] = "pending" THEN "rejected"
                   ELSE promise[j]]
  /\ UNCHANGED <<activeCountRef, queueRef, task, outcome>>
  /\ UNCHANGED <<reconcileVars, dohVars, appVars, rdapVars, normVars, persistVars, lookupVars, checkVars, inputVars, bootVars>>

\* .then(resolve).catch(reject)
SettleEnqueuePromise(i) ==
  /\ task[i] = "settled"
  /\ promise[i] = "pending"
  /\ promise' = [promise EXCEPT ![i] = outcome[i]]
  /\ UNCHANGED <<activeCountRef, queueRef, task, outcome>>
  /\ UNCHANGED <<reconcileVars, dohVars, appVars, rdapVars, normVars, persistVars, lookupVars, checkVars, inputVars, bootVars>>

\* .finally(() => { activeCount = max(activeCount - 1, 0); processQueue(); })
Finally(i) ==
  /\ task[i] = "settled"
  /\ promise[i] # "pending"
  /\ LET r == processQueue(Max(activeCountRef - 1, 0), queueRef) IN
       /\ activeCountRef' = r.active
       /\ queueRef' = r.q
       /\ task' = [j \in TaskIds |->
                     IF j = i THEN "finished"
                     ELSE IF j \in r.started THEN "running"
                     ELSE task[j]]
  /\ UNCHANGED <<outcome, promise>>
  /\ UNCHANGED <<reconcileVars, dohVars, appVars, rdapVars, normVars, persistVars, lookupVars, checkVars, inputVars, bootVars>>

\* Mutant: clear() also resets the count of active tasks.
Clear_ResetsActive ==
  /\ queueRef' = <<>>
  /\ activeCountRef' = 0
  /\ task' = [j \in TaskIds |-> IF task[j] = "queued" THEN "dropped" ELSE task[j]]
  /\ UNCHANGED <<outcome, promise>>
  /\ UNCHANGED <<reconcileVars, dohVars, appVars, rdapVars, normVars, persistVars, lookupVars, checkVars, inputVars, bootVars>>

\* clear(): forget every waiting closure
Clear ==
  /\ queueRef' = <<>>
  /\ task' = [j \in TaskIds |-> IF task[j] = "queued" THEN "dropped" ELSE task[j]]
  /\ UNCHANGED <<activeCountRef, outcome, promise>>
  /\ UNCHANGED <<reconcileVars, dohVars, appVars, rdapVars, normVars, persistVars, lookupVars, checkVars, inputVars, bootVars>>

NextQueue ==
  \/ \E i \in TaskIds : Enqueue(i)
  \/ \E i \in TaskIds, o \in {"fulfilled", "rejected"} : TaskSettles(i, o)
  \/ \E i \in TaskIds : SettleEnqueuePromise(i)
  \/ \E i \in TaskIds : Finally(i)
  \/ Clear

SpecQueue == InitQueue /\ [][NextQueue]_vars

Running == {i \in TaskIds : task[i] = "running"}

\* C2: the number of tasks that were started and have not settled never
\* exceeds the concurrency of the queue.
C2_SchedulerBound == Cardinality(Running) <= QueueConcurrency

C2_Witness ==
  /\ Cardinality(Running) = QueueConcurrency
  /\ queueRef # <<>>
  /\ \E i \in TaskIds : task[i] = "finished" /\ outcome[i] = "rejected"

\* task i is started in this step
Starts(i) == task[i] # "running" /\ task'[i] = "running"

\* C22: when a task is started, no task enqueued before it is left waiting
\* in the queue (tasks are enqueued in the order of their ids): the waiting
\* tasks are started in the order of their enqueue calls, and a task that is
\* enqueued is not started at once while another one waits.
C22_FifoStart ==
  [][\A j \in TaskIds :
       Starts(j) => \A i \in TaskIds : i < j => task'[i] \notin {"new", "queued"}]_vars

\* a task that had to wait has been started after another one finished,
\* while the task enqueued after it still waits
C22_Witness ==
  /\ Cardinality({i \in TaskIds : task[i] = "finished"}) = 1
  /\ task[QueueConcurrency + 1] = "running"
  /\ queueRef = <<QueueConcurrency + 2>>
  /\ Cardinality(Running) = QueueConcurrency

\* C23: a promise returned by enqueue settles with the outcome of its own
\* task and of no other; when a task has rejected and its promise with it,
\* the finally step gives the slot to the head of the queue, or frees it if
\* no task waits.
C23_RejectionIsolated ==
  [][/\ \A i \in TaskIds : promise'[i] \in {"none", "pending", outcome'[i]}
     /\ \A i \in TaskIds :
          (task[i] = "settled" /\ task'[i] = "settled" /\ promise'[i] # promise[i]) =>
             \A j \in TaskIds \ {i} : promise'[j] = promise[j]
     /\ \A i \in TaskIds :
          (outcome[i] = "rejected" /\ task[i] = "settled" /\ task'[i] = "finished") =>
             /\ promise[i] = "rejected"
             /\ IF queueRef = <<>>
                THEN activeCountRef' = activeCountRef - 1 /\ queueRef' = <<>>
                ELSE /\ activeCountRef' = activeCountRef
                     /\ queueRef' = Tail(queueRef)
                     /\ task[Head(queueRef)] = "queued"
                     /\ task'[Head(queueRef)] = "running"]_vars

\* a task has rejected and finished, the task that waited behind it has been
\* started and has fulfilled its own promise
C23_Witness ==
  \E i, j \in TaskIds :
    /\ i <= QueueConcurrency
    /\ j > QueueConcurrency
    /\ task[i] = "finished"
    /\ promise[i] = "rejected"
    /\ task[j] = "finished"
    /\ promise[j] = "fulfilled"
    /\ \A k \in TaskIds \ {i} : promise[k] # "rejected"

\* clear() is called in this step with tasks waiting
Clears == \E i \in TaskIds : task[i] = "queued" /\ task'[i] = "dropped"

\* C24: clear() drops every waiting task and changes neither the count of
\* active tasks nor any task that runs or has run, nor any promise; a
\* dropped task is never started; and a task that was running settles its
\* promise with its own outcome.
C24_ClearFrame ==
  [][/\ Clears =>
          /\ queueRef' = <<>>
          /\ activeCountRef' = activeCountRef
          /\ promise' = promise
          /\ outcome' = outcome
          /\ \A i \in TaskIds :
               task'[i] = (IF task[i] = "queued" THEN "dropped" ELSE task[i])
     /\ \A i \in TaskIds : task[i] = "dropped" => task'[i] = "dropped"
     /\ activeCountRef' >= Cardinality({i \in TaskIds : task'[i] \in {"running", "settled"}})
     /\ \A i \in TaskIds : task'[i] = "finished" => promise'[i] = outcome'[i]]_vars

\* clear() dropped a waiting task; the tasks that were running have all
\* finished and released their slots, and the dropped task was not started
C24_Witness ==
  /\ \E i \in TaskIds : task[i] = "dropped" /\ promise[i] = "pending"
  /\ Cardinality({i \in TaskIds : task[i] = "finished"}) = QueueConcurrency
  /\ activeCountRef = 0
  /\ Running = {}

(***************************************************************************)
(* async.ts: normalizeDomains.  A string is the sequence of its            *)
(* characters, over the alphabet below.                                    *)
(***************************************************************************)
Letters == {"a", "b", "A"}

Alphabet == Letters \cup {".", "-", " ", "/", ":"}

\* String.prototype.toLowerCase
toLowerCase(s) == [k \in 1..Len(s) |-> IF s[k] = "A" THEN "a" ELSE s[k]]

\* the string without its first n characters
drop(s, n) == SubSeq(s, n + 1, Len(s))

\* the number of leading characters of s that are in set
RECURSIVE leading(_, _)
leading(s, set) ==
  IF s # <<>> /\ Head(s) \in set THEN 1 + leading(Tail(s), set) ELSE 0

\* the number of trailing characters of s that are in set
RECURSIVE trailing(_, _)
trailing(s, set) ==
  IF s # <<>> /\ s[Len(s)] \in set THEN 1 + trailing(SubSeq(s, 1, Len(s) - 1), set) ELSE 0

\* does s start with the string prefix
startsWith(s, prefix) == Len(s) >= Len(prefix) /\ SubSeq(s, 1, Len(prefix)) = prefix

\* does s contain the string part
includes(s, part) == \E k \in 1..(Len(s) - Len(part) + 1) : SubSeq(s, k, k + Len(part) - 1) = part

\* s.replace(/\.$/, "")
withoutTrailingDot(s) ==
  IF s # <<>> /\ s[Len(s)] = "." THEN SubSeq(s, 1, Len(s) - 1) ELSE s

\* s.split(separator): the parts between the occurrences of the character
RECURSIVE split(_, _)
split(s, separator) ==
  LET n == leading(s, Alphabet \ {separator})
  IN  IF n = Len(s) THEN <<s>>
      ELSE <<SubSeq(s, 1, n)>> \o split(drop(s, n + 1), separator)

\* Mutant: trim leaves the string as it is.
trim_None(s) == s

\* String.prototype.trim
trim(s) ==
  LET front == leading(s, {" "})
  IN  IF front = Len(s) THEN <<>>
      ELSE SubSeq(s, front + 1, Len(s) - trailing(s, {" "}))

\* stripExtras: the scheme, the leading slashes, the path and one final dot
\* are removed
stripExtras(value) ==
  LET n == leading(value, Letters)
      noScheme == IF n >= 1 /\ startsWith(drop(value, n), <<":", "/", "/">>)
                  THEN drop(value, n + 3) ELSE value
      noSlashes == IF startsWith(noScheme, <<"/", "/">>) THEN drop(noScheme, 2) ELSE noScheme
      withoutScheme == trim(noSlashes)
      hostPart == SubSeq(withoutScheme, 1, leading(withoutScheme, Alphabet \ {"/"}))
  IN  withoutTrailingDot(hostPart)

\* new URL("http://" + domain).hostname for a domain over the alphabet:
\* <<>> when the constructor throws, <<hostname>> otherwise.  The parser
\* drops the spaces at the end of its input and the slashes that follow
\* "http://", reads the host up to the first ":" or "/", accepts only
\* digits as a port, refuses an empty host and a space in the host, and
\* lowercases the host; empty labels and hyphens are let through.
urlHostname(domain) ==
  LET input == SubSeq(domain, 1, Len(domain) - trailing(domain, {" "}))
      authority == drop(input, leading(input, {"/"}))
      hostLen == leading(authority, Alphabet \ {":", "/"})
      host == SubSeq(authority, 1, hostLen)
      rest == drop(authority, hostLen)
      port == IF rest # <<>> /\ Head(rest) = ":"
              THEN SubSeq(rest, 2, 1 + leading(Tail(rest), Alphabet \ {"/"}))
              ELSE <<>>
  IN  IF host = <<>> THEN <<>>
      ELSE IF port # <<>> THEN <<>>
      ELSE IF \E k \in 1..Len(host) : host[k] = " " THEN <<>>
      ELSE <<toLowerCase(host)>>

\* toASCII: <<>> when it throws, <<ascii>> otherwise
toASCII(domain) ==
  IF domain = <<>> THEN <<>>
  ELSE LET hostname == urlHostname(domain)
       IN  IF hostname = <<>> THEN <<>>
           ELSE <<toLowerCase(withoutTrailingDot(hostname[1]))>>

\* LABEL_REGEX.test(label)
LABEL_REGEX(label) ==
  /\ Len(label) >= 1
  /\ Len(label) <= 63
  /\ label[1] \in Letters
  /\ label[Len(label)] \in Letters
  /\ \A k \in 1..Len(label) : label[k] \in Letters \cup {"-"}

\* validateAsciiDomain: the error code, "null" for null
validateAsciiDomain(ascii) ==
  IF Len(ascii) < 1 \/ Len(ascii) > 253 THEN "invalid-length"
  ELSE IF ~includes(ascii, <<".">>) THEN "no-tld"
  ELSE IF ascii[1] = "-" \/ ascii[Len(ascii)] = "-" THEN "invalid-format"
  ELSE IF includes(ascii, <<".", ".">>) THEN "invalid-format"
  ELSE IF \E k \in 1..Len(split(ascii, ".")) : ~LABEL_REGEX(split(ascii, ".")[k])
       THEN "invalid-format"
  ELSE "null"

\* extractTld: <<>> for undefined, <<tld>> otherwise
extractTld(ascii) ==
  LET index == Len(ascii) - leading([k \in 1..Len(ascii) |-> ascii[Len(ascii) + 1 - k]],
                                    Alphabet \ {"."})
  IN  IF index = 0 \/ index = Len(ascii) THEN <<>> ELSE <<drop(ascii, index)>>

\* Mutant: the item keeps the cleaned input as its ascii form.
domainItem_AsciiFromDisplay(cleaned, asciiKey) ==
  [display |-> cleaned, ascii |-> cleaned, tld |-> extractTld(asciiKey)]

\* the DomainItem pushed to the valid list
domainItem(cleaned, asciiKey) ==
  [display |-> cleaned, ascii |-> asciiKey, tld |-> extractTld(asciiKey)]

\* Mutant: the set of seen domains is keyed by the cleaned input.
normalizeEntry_SeenByDisplay(acc, raw) ==
  LET trimmed == trim(raw)
      cleaned == stripExtras(trimmed)
      ascii == toASCII(cleaned)
  IN  IF trimmed = <<>> THEN acc
      ELSE IF ascii = <<>> THEN [acc EXCEPT !.invalid = Append(@, trimmed)]
      ELSE IF validateAsciiDomain(ascii[1]) # "null"
           THEN [acc EXCEPT !.invalid = Append(@, trimmed)]
      ELSE IF cleaned \in acc.seenAscii
           THEN [acc EXCEPT !.duplicate = Append(@, cleaned)]
      ELSE [acc EXCEPT !.seenAscii = @ \cup {cleaned},
                       !.valid = Append(@, domainItem(cleaned, toLowerCase(ascii[1])))]

\* one turn of the loop of normalizeDomains; a throw of toASCII is caught
\* and makes the entry invalid
normalizeEntry(acc, raw) ==
  LET trimmed == trim(raw)
      cleaned == stripExtras(trimmed)
      ascii == toASCII(cleaned)
  IN  IF trimmed = <<>> THEN acc
      ELSE IF ascii = <<>> THEN [acc EXCEPT !.invalid = Append(@, trimmed)]
      ELSE IF validateAsciiDomain(ascii[1]) # "null"
           THEN [acc EXCEPT !.invalid = Append(@, trimmed)]
      ELSE IF toLowerCase(ascii[1]) \in acc.seenAscii
           THEN [acc EXCEPT !.duplicate = Append(@, cleaned)]
      ELSE [acc EXCEPT !.seenAscii = @ \cup {toLowerCase(ascii[1])},
                       !.valid = Append(@, domainItem(cleaned, toLowerCase(ascii[1])))]

RECURSIVE normalizeLoop(_, _)
normalizeLoop(acc, sources) ==
  IF sources = <<>> THEN acc
  ELSE normalizeLoop(normalizeEntry(acc, Head(sources)), Tail(sources))

normalizeDomains(input) ==
  LET final == normalizeLoop([valid |-> <<>>, invalid |-> <<>>, duplicate |-> <<>>,
                              seenAscii |-> {}], input)
  IN  [valid |-> final.valid, invalid |-> final.invalid, duplicate |-> final.duplicate]

(***************************************************************************)
(* Specification of normalizeDomains: the input array is drawn in Init,    *)
(* one action normalizes it and another normalizes the ascii values of the *)
(* valid list again.                                                       *)
(***************************************************************************)
\* the number of entries of the input array
MaxEntries == 3

\* the entries the input arrays are made of
Entries ==
  { <<"a", ".", "b">>,
    <<"A", ".", "b">>,
    <<"b", ".", "a">>,
    <<"a", ".", "b", ".">>,
    <<" ", "a", ".", "b", " ">>,
    <<"a", ":", "/", "/", "A", ".", "b", "/", "a">>,
    <<"/", "/", "a", ".", "b">>,
    <<"a", ".", "b", " ", "/", "a">>,
    <<"a", ".", "b", ":">>,
    <<" ">>,
    <<"a">>,
    <<".">>,
    <<"-", "a", ".", "b">>,
    <<"a", " ", "b", ".", "a">>,
    <<"a", ".", "b", ":", "a">> }

InitNorm ==
  /\ nInput \in UNION {[1..n -> Entries] : n \in 0..MaxEntries}
  /\ nPc = "ready"
  /\ nResult = <<>>
  /\ nAgain = <<>>
  /\ VerdictOff
  /\ QueueOff
  /\ DohOff
  /\ AppOff
  /\ RdapOff
  /\ PersistOff
  /\ LookupOff
  /\ CheckOff
  /\ InputOff
  /\ BootOff

\* normalizeDomains(nInput)
NormalizeDomains ==
  /\ nPc = "ready"
  /\ nResult' = <<normalizeDomains(nInput)>>
  /\ nPc' = "normalized"
  /\ UNCHANGED <<nInput, nAgain>>
  /\ UNCHANGED <<reconcileVars, queueVars, dohVars, appVars, rdapVars, persistVars, lookupVars, checkVars, inputVars, bootVars>>

\* normalizeDomains(valid.map(item => item.ascii))
NormalizeAgain ==
  /\ nPc = "normalized"
  /\ nAgain' = <<normalizeDomains([k \in 1..Len(nResult[1].valid) |-> nResult[1].valid[k].ascii])>>
  /\ nPc' = "renormalized"
  /\ UNCHANGED <<nInput, nResult>>
  /\ UNCHANGED <<reconcileVars, queueVars, dohVars, appVars, rdapVars, persistVars, lookupVars, checkVars, inputVars, bootVars>>

NextNorm ==
  \/ NormalizeDomains
  \/ NormalizeAgain

SpecNorm == InitNorm /\ [][NextNorm]_vars

\* an entry that is not blank: it has a character that is not white space
NonBlank(raw) == \E k \in 1..Len(raw) : raw[k] # " "

\* the domain an entry is cleaned to
Cleaned(raw) == stripExtras(trim(raw))

\* an entry that normalizes to a domain name
Normalizable(raw) ==
  /\ NonBlank(raw)
  /\ toASCII(Cleaned(raw)) # <<>>
  /\ validateAsciiDomain(toASCII(Cleaned(raw))[1]) = "null"

\* the ascii form of a normalizable entry
AsciiOf(raw) == toASCII(Cleaned(raw))[1]

\* entry k of the input is the first one that normalizes to its ascii form
FirstOccurrence(input, k) ==
  /\ Normalizable(input[k])
  /\ \A j \in 1..(k - 1) : Normalizable(input[j]) => AsciiOf(input[j]) # AsciiOf(input[k])

\* entry k of the input normalizes to the ascii form of an earlier entry
LaterOccurrence(input, k) ==
  /\ Normalizable(input[k])
  /\ \E j \in 1..(k - 1) : Normalizable(input[j]) /\ AsciiOf(input[j]) = AsciiOf(input[k])

\* the positions of a sequence, in order
Positions(input) == [k \in 1..Len(input) |-> k]

\* C25: the ascii values of the valid list are pairwise different; the valid
\* list is made of the first occurrence of every ascii form, in input order,
\* and the duplicate list of every later entry that normalizes to an ascii
\* form already met, whatever its letter case.
C25_FirstOccurrenceKept ==
  nResult # <<>> =>
    LET result == nResult[1]
        IsFirst(k) == FirstOccurrence(nInput, k)
        IsLater(k) == LaterOccurrence(nInput, k)
        firsts == SelectSeq(Positions(nInput), IsFirst)
        laters == SelectSeq(Positions(nInput), IsLater)
    IN  /\ \A i, j \in 1..Len(result.valid) :
             i # j => result.valid[i].ascii # result.valid[j].ascii
        /\ result.valid = [k \in 1..Len(firsts) |->
                             domainItem(Cleaned(nInput[firsts[k]]), AsciiOf(nInput[firsts[k]]))]
        /\ result.duplicate = [k \in 1..Len(laters) |-> Cleaned(nInput[laters[k]])]

\* "a.b" was kept and a later "A.b" was reported as its duplicate
C25_Witness ==
  /\ nResult # <<>>
  /\ Len(nResult[1].valid) >= 1
  /\ nResult[1].valid[1].ascii = <<"a", ".", "b">>
  /\ nResult[1].valid[1].display = <<"a", ".", "b">>
  /\ \E k \in 1..Len(nResult[1].duplicate) : nResult[1].duplicate[k] = <<"A", ".", "b">>

\* the ascii values of a valid list
AsciiValues(valid) == [k \in 1..Len(valid) |-> valid[k].ascii]

\* C26: normalizing the ascii values of a valid list gives a valid list with
\* the same ascii values in the same order, and nothing invalid or duplicate.
C26_Idempotent ==
  nAgain # <<>> =>
    /\ AsciiValues(nAgain[1].valid) = AsciiValues(nResult[1].valid)
    /\ nAgain[1].invalid = <<>>
    /\ nAgain[1].duplicate = <<>>

\* a valid list of two domains, one of them written otherwise than its ascii
\* form, has been normalized again
C26_Witness ==
  /\ nAgain # <<>>
  /\ Len(nResult[1].valid) >= 2
  /\ \E k \in 1..Len(nResult[1].valid) : nResult[1].valid[k].display # nResult[1].valid[k].ascii
  /\ Len(nAgain[1].valid) >= 2

\* C27: normalizeDomains returns, and the valid, invalid and duplicate lists
\* together have one entry for every input entry that is not blank: the
\* entry as trimmed in invalid, or as cleaned in valid or duplicate.
C27_EveryEntryClassified ==
  nPc # "ready" =>
    /\ nResult # <<>>
    /\ LET result == nResult[1]
           IsNonBlank(k) == NonBlank(nInput[k])
           IsKept(k) == NonBlank(nInput[k]) /\ Normalizable(nInput[k])
           IsRefused(k) == NonBlank(nInput[k]) /\ ~Normalizable(nInput[k])
           kept == SelectSeq(Positions(nInput), IsKept)
           refused == SelectSeq(Positions(nInput), IsRefused)
       IN  /\ Len(result.valid) + Len(result.invalid) + Len(result.duplicate)
                = Len(SelectSeq(Positions(nInput), IsNonBlank))
           /\ Len(result.valid) + Len(result.duplicate) = Len(kept)
           /\ result.invalid = [k \in 1..Len(refused) |-> trim(nInput[refused[k]])]

\* an input with a blank entry, a domain, and an entry on which toASCII throws
C27_Witness ==
  /\ nResult # <<>>
  /\ \E k \in 1..Len(nInput) : ~NonBlank(nInput[k])
  /\ Len(nResult[1].valid) = 1
  /\ \E k \in 1..Len(nInput) : NonBlank(nInput[k]) /\ toASCII(Cleaned(nInput[k])) = <<>>
  /\ Len(nResult[1].invalid) = 1

(***************************************************************************)
(* useAppState.tsx: persistInput.  A list of domains is described by its   *)
(* content (a name), its length and the length of the JSON text of its     *)
(* items; a slice of it is the record of its first and last position, so   *)
(* that lists of more than PERSIST_INPUT_DOMAIN_THRESHOLD domains can be   *)
(* split as the code splits them.  The JSON text of a chunk is modelled by *)
(* the slice it holds and by its length.                                   *)
(***************************************************************************)
PERSIST_INPUT_DOMAIN_THRESHOLD == 50000

PERSIST_INPUT_PAYLOAD_THRESHOLD == 2621440

PERSIST_INPUT_VERSION == 2

\* JSON.stringify(item).length of the item at a position of a list
itemLength(list, position) == IF position = list.big THEN list.bigLength ELSE list.length

\* JSON.stringify({ domains }).length for the slice lo..hi of a list:
\* {"domains":[ and ]} are 14 characters, the items are separated by commas
serializedLength(list, lo, hi) ==
  IF hi < lo THEN 14
  ELSE 14 + (hi - lo + 1) * list.length
          + (IF lo <= list.big /\ list.big <= hi THEN list.bigLength - list.length ELSE 0)
          + (hi - lo)

\* sliceDomains(domains) for the slice lo..hi of a list
RECURSIVE sliceDomains(_, _, _)
sliceDomains(list, lo, hi) ==
  LET count == hi - lo + 1
      withinDomainLimit == count <= PERSIST_INPUT_DOMAIN_THRESHOLD
      withinPayloadLimit == serializedLength(list, lo, hi) <= PERSIST_INPUT_PAYLOAD_THRESHOLD
      pivot == (count + 1) \div 2
  IN  IF count = 0 THEN <<>>
      ELSE IF withinDomainLimit /\ withinPayloadLimit THEN <<[lo |-> lo, hi |-> hi]>>
      ELSE IF count = 1 THEN <<[lo |-> lo, hi |-> hi]>>
      ELSE sliceDomains(list, lo, lo + pivot - 1) \o sliceDomains(list, lo + pivot, hi)

\* Mutant: buildInputChunks makes one chunk of the whole list.
buildInputChunks_Whole(list) ==
  IF list.count = 0 THEN <<>>
  ELSE <<[domains |-> list.domains, lo |-> 1, hi |-> list.count,
          length |-> serializedLength(list, 1, list.count)]>>

\* buildInputChunks: the JSON text of every chunk
buildInputChunks(list) ==
  LET chunks == sliceDomains(list, 1, list.count)
  IN  [k \in 1..Len(chunks) |->
         [domains |-> list.domains, lo |-> chunks[k].lo, hi |-> chunks[k].hi,
          length |-> serializedLength(list, chunks[k].lo, chunks[k].hi)]]

\* getPersistedChunkCount
getPersistedChunkCount(rawMetadata) ==
  IF rawMetadata = <<>> THEN 0
  ELSE IF rawMetadata[1].version = PERSIST_INPUT_VERSION /\ rawMetadata[1].chunkCount # 0
       THEN rawMetadata[1].chunkCount
  ELSE 0

\* storage.setItem for a chunk key
setItem(chunks, index, payload) ==
  [k \in DOMAIN chunks \cup {index} |-> IF k = index THEN payload ELSE chunks[k]]

\* Mutant: removeItem leaves the keys in place.
removeItems_None(chunks, indexes) == chunks

\* storage.removeItem for a set of chunk keys
removeItems(chunks, indexes) == [k \in DOMAIN chunks \ indexes |-> chunks[k]]

\* restoreChunksOnFailure: the backups are put back from the last to the
\* first; throwing holds the keys whose setItem throws, which the function
\* catches and ignores
RECURSIVE restoreChunksOnFailure(_, _, _)
restoreChunksOnFailure(chunks, backups, throwing) ==
  IF backups = <<>> THEN chunks
  ELSE LET last == backups[Len(backups)]
           restored == IF last.value = <<>> THEN removeItems(chunks, {last.key})
                       ELSE IF last.key \in throwing THEN chunks
                       ELSE setItem(chunks, last.key, last.value[1])
       IN  restoreChunksOnFailure(restored, SubSeq(backups, 1, Len(backups) - 1), throwing)

(***************************************************************************)
(* Specification of persistInput: calls follow one another on the same     *)
(* sessionStorage, which is empty at first; any setItem of the try block   *)
(* and of the catch block may throw a QuotaExceededError.                  *)
(***************************************************************************)
\* the number of calls of persistInput
MaxCalls == 2

\* the values of state.input that are persisted: the domains (content,
\* count, JSON length of an item, position and JSON length of one longer
\* item, 0 for none) and updatedAt
PersistedInputs ==
  { [domains |-> "none", count |-> 0, length |-> 47, big |-> 0, bigLength |-> 0, updatedAt |-> 1],
    [domains |-> "x", count |-> 1, length |-> 47, big |-> 0, bigLength |-> 0, updatedAt |-> 2],
    [domains |-> "y", count |-> 3, length |-> 47, big |-> 0, bigLength |-> 0, updatedAt |-> 3],
    [domains |-> "z", count |-> 50000, length |-> 47, big |-> 0, bigLength |-> 0, updatedAt |-> 4],
    [domains |-> "u", count |-> 50001, length |-> 47, big |-> 0, bigLength |-> 0, updatedAt |-> 5],
    [domains |-> "v", count |-> 100001, length |-> 47, big |-> 0, bigLength |-> 0, updatedAt |-> 6],
    [domains |-> "w", count |-> 12, length |-> 524323, big |-> 0, bigLength |-> 0, updatedAt |-> 7],
    [domains |-> "t", count |-> 2, length |-> 47, big |-> 1, bigLength |-> 3000000, updatedAt |-> 8] }

InitPersist ==
  /\ sMeta = <<>>
  /\ sChunks = <<>>
  /\ pPc = "idle"
  /\ pLocals = [calls |-> 0]
  /\ VerdictOff
  /\ QueueOff
  /\ DohOff
  /\ AppOff
  /\ RdapOff
  /\ NormOff
  /\ LookupOff
  /\ CheckOff
  /\ InputOff
  /\ BootOff

\* persistInput(value) up to the try block
PersistInput(value) ==
  /\ pPc = "idle"
  /\ pLocals.calls < MaxCalls
  /\ pLocals' = [calls |-> pLocals.calls + 1,
                 value |-> value,
                 existingMetadata |-> sMeta,
                 previousChunkCount |-> getPersistedChunkCount(sMeta),
                 chunkPayloads |-> buildInputChunks(value),
                 chunkBackups |-> <<>>,
                 index |-> 0,
                 storageBefore |-> [meta |-> sMeta, chunks |-> sChunks],
                 error |-> "none",
                 outcome |-> "none"]
  /\ pPc' = "chunks"
  /\ UNCHANGED <<sMeta, sChunks>>
  /\ UNCHANGED <<reconcileVars, queueVars, dohVars, appVars, rdapVars, normVars, lookupVars, checkVars, inputVars, bootVars>>

\* one turn of chunkPayloads.forEach: the previous value is backed up, then
\* setItem stores the payload or throws
WriteChunk(quotaExceeded) ==
  /\ pPc = "chunks"
  /\ pLocals.index < Len(pLocals.chunkPayloads)
  /\ LET key == pLocals.index
         previousValue == IF key \in DOMAIN sChunks THEN <<sChunks[key]>> ELSE <<>>
         backups == Append(pLocals.chunkBackups, [key |-> key, value |-> previousValue])
     IN  IF quotaExceeded
         THEN /\ pLocals' = [pLocals EXCEPT !.chunkBackups = backups,
                                            !.error = "QuotaExceededError"]
              /\ pPc' = "catch"
              /\ UNCHANGED sChunks
         ELSE /\ pLocals' = [pLocals EXCEPT !.chunkBackups = backups, !.index = @ + 1]
              /\ sChunks' = setItem(sChunks, key, pLocals.chunkPayloads[key + 1])
              /\ UNCHANGED pPc
  /\ UNCHANGED sMeta
  /\ UNCHANGED <<reconcileVars, queueVars, dohVars, appVars, rdapVars, normVars, lookupVars, checkVars, inputVars, bootVars>>

\* the loop that removes the chunks of the previous call that are not needed
RemoveStaleChunks ==
  /\ pPc = "chunks"
  /\ pLocals.index = Len(pLocals.chunkPayloads)
  /\ sChunks' = removeItems(sChunks,
                            Len(pLocals.chunkPayloads)..(pLocals.previousChunkCount - 1))
  /\ pPc' = "metadata"
  /\ UNCHANGED <<sMeta, pLocals>>
  /\ UNCHANGED <<reconcileVars, queueVars, dohVars, appVars, rdapVars, normVars, lookupVars, checkVars, inputVars, bootVars>>

\* storage.setItem(SESSION_STORAGE_KEY, JSON.stringify(metadata)), the last
\* statement of the try block
WriteMetadata(quotaExceeded) ==
  /\ pPc = "metadata"
  /\ IF quotaExceeded
     THEN /\ pLocals' = [pLocals EXCEPT !.error = "QuotaExceededError"]
          /\ pPc' = "catch"
          /\ UNCHANGED sMeta
     ELSE /\ sMeta' = <<[version |-> PERSIST_INPUT_VERSION,
                         updatedAt |-> pLocals.value.updatedAt,
                         totalCount |-> pLocals.value.count,
                         chunkCount |-> Len(pLocals.chunkPayloads)]>>
          /\ pLocals' = [pLocals EXCEPT !.outcome = "returned"]
          /\ pPc' = "done"
  /\ UNCHANGED sChunks
  /\ UNCHANGED <<reconcileVars, queueVars, dohVars, appVars, rdapVars, normVars, lookupVars, checkVars, inputVars, bootVars>>

\* the keys restoreChunksOnFailure calls setItem for: the chunks backed up
\* with a value
RestoredKeys ==
  IF pPc # "catch" THEN {}
  ELSE {pLocals.chunkBackups[k].key : k \in {j \in 1..Len(pLocals.chunkBackups) :
                                               pLocals.chunkBackups[j].value # <<>>}}

\* the catch block: the backups are put back, except those whose setItem
\* throws (throwing); then the previous metadata is put back, and a quota
\* error is logged and the function returns.  The setItem of the metadata is
\* not guarded: when it throws (quotaExceeded) the metadata stays and
\* persistInput throws.
CatchBlock(throwing, quotaExceeded) ==
  /\ pPc = "catch"
  /\ throwing \subseteq RestoredKeys
  /\ quotaExceeded => pLocals.existingMetadata # <<>>
  /\ sChunks' = restoreChunksOnFailure(sChunks, pLocals.chunkBackups, throwing)
  /\ sMeta' = IF quotaExceeded THEN sMeta ELSE pLocals.existingMetadata
  /\ pLocals' = [pLocals EXCEPT !.outcome =
                    IF quotaExceeded THEN "thrown"
                    ELSE IF pLocals.error = "QuotaExceededError" THEN "returned"
                    ELSE "thrown"]
  /\ pPc' = "done"
  /\ UNCHANGED <<reconcileVars, queueVars, dohVars, appVars, rdapVars, normVars, lookupVars, checkVars, inputVars, bootVars>>

\* the caller goes on
PersistReturns ==
  /\ pPc = "done"
  /\ pPc' = "idle"
  /\ pLocals' = [calls |-> pLocals.calls]
  /\ UNCHANGED <<sMeta, sChunks>>
  /\ UNCHANGED <<reconcileVars, queueVars, dohVars, appVars, rdapVars, normVars, lookupVars, checkVars, inputVars, bootVars>>

NextPersist ==
  \/ \E value \in PersistedInputs : PersistInput(value)
  \/ \E quotaExceeded \in BOOLEAN : WriteChunk(quotaExceeded)
  \/ RemoveStaleChunks
  \/ \E quotaExceeded \in BOOLEAN : WriteMetadata(quotaExceeded)
  \/ \E throwing \in SUBSET RestoredKeys : \E quotaExceeded \in BOOLEAN :
       CatchBlock(throwing, quotaExceeded)
  \/ PersistReturns

SpecPersist == InitPersist /\ [][NextPersist]_vars

\* the slices held by the chunks stored under chunk:0 .. chunk:count-1
StoredSlices(count) == [k \in 1..count |-> sChunks[k - 1]]

\* C28: after a call that met no error, the chunks are stored under
\* chunk:0, chunk:1, ...; each holds at most PERSIST_INPUT_DOMAIN_THRESHOLD
\* domains and, unless it holds a single domain, at most
\* PERSIST_INPUT_PAYLOAD_THRESHOLD characters; put end to end in index order
\* they are the input list; and the metadata, which is not written before
\* all the chunks are, records chunkCount and totalCount.
C28_ChunkedPersist ==
  /\ pPc \in {"chunks", "metadata"} => sMeta = pLocals.existingMetadata
  /\ (pPc = "done" /\ pLocals.error = "none") =>
       LET value == pLocals.value
           count == Len(pLocals.chunkPayloads)
           stored == StoredSlices(count)
       IN  /\ DOMAIN sChunks = 0..(count - 1)
           /\ \A k \in 1..count :
                /\ stored[k].domains = value.domains
                /\ stored[k].lo <= stored[k].hi
                /\ stored[k].hi - stored[k].lo + 1 <= PERSIST_INPUT_DOMAIN_THRESHOLD
                /\ stored[k].length = serializedLength(value, stored[k].lo, stored[k].hi)
                /\ \/ stored[k].length <= PERSIST_INPUT_PAYLOAD_THRESHOLD
                   \/ stored[k].lo = stored[k].hi
                /\ stored[k].lo = (IF k = 1 THEN 1 ELSE stored[k - 1].hi + 1)
           /\ (IF count = 0 THEN value.count = 0 ELSE stored[count].hi = value.count)
           /\ sMeta # <<>>
           /\ sMeta[1].chunkCount = count
           /\ sMeta[1].totalCount = value.count

\* a list of more than twice the domain threshold has been stored in three
\* chunks over the four chunks of a list of long items
C28_Witness ==
  /\ pPc = "done"
  /\ pLocals.error = "none"
  /\ pLocals.value.count > 2 * PERSIST_INPUT_DOMAIN_THRESHOLD
  /\ Len(pLocals.chunkPayloads) = 3
  /\ pLocals.previousChunkCount > 3

\* the chunk count the metadata found by the call accounted for
PreviousChunkCount ==
  IF pLocals.existingMetadata = <<>> THEN 0 ELSE pLocals.existingMetadata[1].chunkCount

\* C40: after a call that met no error, sessionStorage has no chunk key
\* with an index from the new chunkCount up to the chunk count of the
\* previous metadata: the surplus chunks of a longer previous list are
\* removed.
C40_SurplusChunksRemoved ==
  (pPc = "done" /\ pLocals.error = "none") =>
     \A k \in sMeta[1].chunkCount..(PreviousChunkCount - 1) : k \notin DOMAIN sChunks

\* a list stored in one chunk has replaced a list stored in four
C40_Witness ==
  /\ pPc = "done"
  /\ pLocals.error = "none"
  /\ PreviousChunkCount = 4
  /\ sMeta[1].chunkCount = 1
  /\ sMeta[1].totalCount > 0

\* C29: when a write of persistInput has failed with QuotaExceededError, the
\* call returns without throwing and sessionStorage has the keys and the
\* values it had before the call.
C29_QuotaFailureRestores ==
  (pPc = "done" /\ pLocals.error = "QuotaExceededError") =>
     /\ pLocals.outcome = "returned"
     /\ sMeta = pLocals.storageBefore.meta
     /\ sChunks = pLocals.storageBefore.chunks

(***************************************************************************)
(* dohQuery.ts                                                             *)
(* A response is "fail" (fetch rejected, HTTP status not ok, or a body     *)
(* that is not JSON: requestDohRecord throws) or a DohResponse with the    *)
(* RCODE and the record types of its Answer and Authority sections.        *)
(***************************************************************************)
NS_RECORD_TYPE == 2

SOA_RECORD_TYPE == 6

DNS_RETRY_ATTEMPTS == 3

DNS_RETRY_DELAY_MS == 400

DOH_PROVIDERS == <<"google", "cloudflare">>

\* RCODEs: NOERROR, SERVFAIL, NXDOMAIN
Rcodes == {0, 2, 3}

Sections == {<<>>, <<NS_RECORD_TYPE>>, <<SOA_RECORD_TYPE>>}

DohResponses ==
  [Status : Rcodes, Answer : Sections, Authority : Sections]

DohReplies == {<<>>} \cup {<<r>> : r \in DohResponses}

SeqToSet(q) == {q[k] : k \in 1..Len(q)}

RECURSIVE Unique(_)
\* Array.from(new Set(ids)): the first occurrence of every id, in order
Unique(q) ==
  IF q = <<>> THEN <<>>
  ELSE LET init == Unique(SubSeq(q, 1, Len(q) - 1))
           last == q[Len(q)]
       IN IF last \in SeqToSet(init) THEN init ELSE Append(init, last)

\* Mutant: the providers are tried in the reverse order.
buildProviderSequence_Reversed(preferredProviders) ==
  LET ids == IF Len(preferredProviders) > 0 THEN preferredProviders ELSE DOH_PROVIDERS
      u == SelectSeq(Unique(ids), LAMBDA id : id \in SeqToSet(DOH_PROVIDERS))
  IN [k \in 1..Len(u) |-> u[Len(u) + 1 - k]]

buildProviderSequence(preferredProviders) ==
  LET ids == IF Len(preferredProviders) > 0 THEN preferredProviders ELSE DOH_PROVIDERS
  IN SelectSeq(Unique(ids), LAMBDA id : id \in SeqToSet(DOH_PROVIDERS))

\* Mutant: only the Answer section is searched.
hasRecordOfType_AnswerOnly(response, targetType) ==
  \E k \in 1..Len(response.Answer) : response.Answer[k] = targetType

hasRecordOfType(response, targetType) ==
  LET allRecords == response.Answer \o response.Authority
  IN \E k \in 1..Len(allRecords) : allRecords[k] = targetType

interpretNsResponse(response) ==
  IF response.Status = 3 THEN "nxdomain"
  ELSE IF response.Status = 0
       THEN IF hasRecordOfType(response, NS_RECORD_TYPE) THEN "has-ns" ELSE "no-ns"
  ELSE "error"

\* Mutant: every attempt waits the base delay.
retryDelay_Constant(baseDelay, attempt) == baseDelay

\* the argument of delay() after a failed attempt
retryDelay(baseDelay, attempt) == baseDelay * attempt

attempts == Max(DNS_RETRY_ATTEMPTS, 1)

baseDelay == Max(DNS_RETRY_DELAY_MS, 0)

providerSequence == buildProviderSequence(dPreferred)

PreferredInputs ==
  {<<>>} \cup {<<a>> : a \in SeqToSet(DOH_PROVIDERS)}
         \cup {<<a, b>> : a \in SeqToSet(DOH_PROVIDERS), b \in SeqToSet(DOH_PROVIDERS)}

ErrorResult(lastDetail) ==
  [status |-> "error", provider |-> "null",
   detail |-> IF lastDetail # <<>> THEN lastDetail[1] ELSE "dns.detail.unknown-error"]

DecisiveResult(status, provider) ==
  [status |-> status, provider |-> provider, detail |-> "undefined"]

InitDoh ==
  /\ dPreferred \in PreferredInputs
  /\ dPc = "ns"
  /\ dAttempt = 1
  /\ dIdx = 1
  /\ dLastDetail = <<>>
  /\ dLog = <<>>
  /\ dResult = <<>>
  /\ dCalls = <<>>
  /\ dWaits = <<>>
  /\ dReturn = <<>>
  /\ VerdictOff
  /\ QueueOff
  /\ AppOff
  /\ RdapOff
  /\ NormOff
  /\ PersistOff
  /\ LookupOff
  /\ CheckOff
  /\ InputOff
  /\ BootOff

\* return { status, provider } from inside the loop
DohReturn(result) ==
  /\ dPc' = "returned"
  /\ dResult' = << result >>
  /\ dCalls' = Append(dCalls, result)
  /\ UNCHANGED <<dIdx, dLastDetail>>

\* the end of one loop iteration with lastDetail set: the next provider, or
\* the error result after the last one
DohNextProvider(detail) ==
  /\ dLastDetail' = <<detail>>
  /\ dIdx' = dIdx + 1
  /\ IF dIdx + 1 > Len(providerSequence)
     THEN /\ dPc' = "returned"
          /\ dResult' = <<ErrorResult(<<detail>>)>>
          /\ dCalls' = Append(dCalls, ErrorResult(<<detail>>))
     ELSE /\ dPc' = "ns"
          /\ UNCHANGED <<dResult, dCalls>>

\* await requestDohRecord(provider.endpoint, domain, "NS") completes
NsReply(reply) ==
  /\ dPc = "ns"
  /\ dLog' = Append(dLog, [provider |-> providerSequence[dIdx], record |-> "NS", reply |-> reply])
  /\ IF reply = <<>> THEN DohNextProvider("dns.detail.network-error")
     ELSE LET nsStatus == interpretNsResponse(reply[1]) IN
          IF nsStatus = "has-ns" THEN DohReturn(DecisiveResult("has-ns", providerSequence[dIdx]))
          ELSE IF nsStatus = "nxdomain" THEN DohReturn(DecisiveResult("nxdomain", providerSequence[dIdx]))
          ELSE IF nsStatus = "no-ns"
               THEN dPc' = "soa" /\ UNCHANGED <<dIdx, dLastDetail, dResult, dCalls>>
          ELSE DohNextProvider("dns.detail.unexpected-status")
  /\ UNCHANGED <<dPreferred, dAttempt, dWaits, dReturn>>
  /\ UNCHANGED <<reconcileVars, queueVars, appVars, rdapVars, normVars, persistVars, lookupVars, checkVars, inputVars, bootVars>>

\* await requestDohRecord(provider.endpoint, domain, "SOA") completes
SoaReply(reply) ==
  /\ dPc = "soa"
  /\ dLog' = Append(dLog, [provider |-> providerSequence[dIdx], record |-> "SOA", reply |-> reply])
  /\ IF reply = <<>> THEN DohNextProvider("dns.detail.network-error")
     ELSE IF reply[1].Status = 3 THEN DohReturn(DecisiveResult("nxdomain", providerSequence[dIdx]))
     ELSE IF hasRecordOfType(reply[1], SOA_RECORD_TYPE)
          THEN DohReturn(DecisiveResult("has-ns", providerSequence[dIdx]))
     ELSE DohReturn(DecisiveResult("no-ns", providerSequence[dIdx]))
  /\ UNCHANGED <<dPreferred, dAttempt, dWaits, dReturn>>
  /\ UNCHANGED <<reconcileVars, queueVars, appVars, rdapVars, normVars, persistVars, lookupVars, checkVars, inputVars, bootVars>>

\* runDohQueryWithRetry after await runDohQuery(...): back off, or return.
\* runDohQuery catches every failure of its requests, so the catch branch of
\* runDohQueryWithRetry is never entered.
RetryDecide ==
  /\ dPc = "returned"
  /\ IF dResult[1].status = "error" /\ dAttempt < attempts
     THEN /\ dPc' = "delay"
          /\ dWaits' = Append(dWaits, retryDelay(baseDelay, dAttempt))
          /\ UNCHANGED <<dReturn>>
     ELSE /\ dPc' = "done"
          /\ dReturn' = dResult
          /\ UNCHANGED <<dWaits>>
  /\ UNCHANGED <<dPreferred, dAttempt, dIdx, dLastDetail, dLog, dResult, dCalls>>
  /\ UNCHANGED <<reconcileVars, queueVars, appVars, rdapVars, normVars, persistVars, lookupVars, checkVars, inputVars, bootVars>>

\* the delay has elapsed: continue with the next attempt, a new runDohQuery call
DelayElapsed ==
  /\ dPc = "delay"
  /\ dAttempt' = dAttempt + 1
  /\ dPc' = "ns"
  /\ dIdx' = 1
  /\ dLastDetail' = <<>>
  /\ dLog' = <<>>
  /\ dResult' = <<>>
  /\ UNCHANGED <<dPreferred, dCalls, dWaits, dReturn>>
  /\ UNCHANGED <<reconcileVars, queueVars, appVars, rdapVars, normVars, persistVars, lookupVars, checkVars, inputVars, bootVars>>

NextDoh ==
  \/ \E reply \in DohReplies : NsReply(reply)
  \/ \E reply \in DohReplies : SoaReply(reply)
  \/ RetryDecide
  \/ DelayElapsed

SpecDoh == InitDoh /\ [][NextDoh]_vars

\* --- properties of runDohQuery, read off the request log when it returns ---
HasType(reply, t) ==
  t \in (SeqToSet(reply[1].Answer) \cup SeqToSet(reply[1].Authority))

Answered(k) == dLog[k].reply # <<>>

IsLast(k) == k = Len(dLog)

ReturnedFrom(k, status) ==
  /\ IsLast(k)
  /\ dResult[1].status = status
  /\ dResult[1].provider = dLog[k].provider

\* the classification of one provider, as far as its requests were answered
ProviderRule(k) ==
  LET r == dLog[k].reply[1] IN
  /\ r.Status = 3 => ReturnedFrom(k, "nxdomain")
  /\ (r.Status = 0 /\ HasType(dLog[k].reply, 2)) => ReturnedFrom(k, "has-ns")
  /\ (r.Status = 0 /\ ~HasType(dLog[k].reply, 2)) =>
        /\ k < Len(dLog)
        /\ dLog[k + 1].record = "SOA"
        /\ dLog[k + 1].provider = dLog[k].provider
        /\ Answered(k + 1) =>
             LET s == dLog[k + 1].reply[1] IN
             ReturnedFrom(k + 1,
                          IF s.Status = 3 THEN "nxdomain"
                          ELSE IF HasType(dLog[k + 1].reply, 6) THEN "has-ns"
                          ELSE "no-ns")

\* C8 (as stated): the per-provider classification, and once an NS response
\* has Status 0 or 3 the result comes from that provider and no later
\* provider is queried.
C8_ProviderRuleAsStated ==
  dPc = "returned" =>
    \A k \in 1..Len(dLog) :
      (dLog[k].record = "NS" /\ Answered(k)) =>
         /\ ProviderRule(k)
         /\ dLog[k].reply[1].Status \in {0, 3} =>
              /\ dResult[1].provider = dLog[k].provider
              /\ \A j \in k..Len(dLog) : dLog[j].provider = dLog[k].provider

\* C8 (amended): the per-provider classification; once an NS response has
\* Status 0 or 3 the result comes from that provider and no later provider is
\* queried, unless the SOA request to that provider fails, in which case the
\* next provider is tried.
C8_ProviderRule ==
  dPc = "returned" =>
    \A k \in 1..Len(dLog) :
      /\ (dLog[k].record = "NS" /\ Answered(k)) =>
           /\ ProviderRule(k)
           /\ (/\ dLog[k].reply[1].Status \in {0, 3}
               /\ ~(k < Len(dLog) /\ dLog[k + 1].record = "SOA" /\ ~Answered(k + 1))) =>
                /\ dResult[1].provider = dLog[k].provider
                /\ \A j \in k..Len(dLog) : dLog[j].provider = dLog[k].provider
      /\ (dLog[k].record = "SOA" /\ ~Answered(k) /\ k < Len(dLog)) =>
           /\ dLog[k + 1].record = "NS"
           /\ dLog[k + 1].provider # dLog[k].provider

C8_Witness ==
  /\ dPc = "returned"
  /\ Len(dLog) = 4
  /\ dLog[2].record = "SOA" /\ ~Answered(2)
  /\ dLog[4].record = "SOA" /\ Answered(4)
  /\ dLog[4].reply[1].Status = 0 /\ dLog[4].reply[1].Authority = <<6>>
  /\ dResult[1].status = "has-ns"

\* the order the caller configured: the preferred list, or google then
\* cloudflare when it is empty
Configured == IF dPreferred = <<>> THEN <<"google", "cloudflare">> ELSE dPreferred

FirstIdx(p) == CHOOSE i \in 1..Len(Configured) :
                 Configured[i] = p /\ \A j \in 1..(i - 1) : Configured[j] # p

NonDecisive(k) == ~Answered(k) \/ dLog[k].reply[1].Status \notin {0, 3}

\* an answer with RCODE 0 that carries an NS or an SOA record, to either request
AnswersWithRecord(k) ==
  /\ Answered(k)
  /\ dLog[k].reply[1].Status = 0
  /\ HasType(dLog[k].reply, 2) \/ HasType(dLog[k].reply, 6)

\* the SOA request that follows the NS response at k was sent and failed
SoaRequestFailed(k) ==
  /\ dLog[k].record = "NS"
  /\ k < Len(dLog)
  /\ dLog[k + 1].record = "SOA"
  /\ ~Answered(k + 1)

\* the provider order and the error result, common to both readings of C9
ProviderOrder ==
  /\ dResult[1].status \in DnsStatuses
  /\ dLog # <<>> /\ dLog[1].provider = Configured[1]
  /\ \A k \in 1..(Len(dLog) - 1) :
       dLog[k + 1].provider # dLog[k].provider =>
         /\ NonDecisive(k)
         /\ FirstIdx(dLog[k + 1].provider) > FirstIdx(dLog[k].provider)
         /\ \A i \in 1..Len(Configured) :
              (i < FirstIdx(dLog[k + 1].provider)) =>
                 \E j \in 1..k : dLog[j].provider = Configured[i]
  /\ dResult[1].status = "error" =>
       /\ \A i \in 1..Len(Configured) :
            \E k \in 1..Len(dLog) :
              /\ dLog[k].provider = Configured[i]
              /\ NonDecisive(k)
              /\ (k < Len(dLog) => dLog[k + 1].provider # Configured[i])
       /\ dResult[1].detail = IF Answered(Len(dLog))
                              THEN "dns.detail.unexpected-status"
                              ELSE "dns.detail.network-error"

\* C9 (as stated): providers are tried in the configured order, the next one
\* only after a failed request or an RCODE other than 0 and 3; the result is
\* one of has-ns, no-ns, nxdomain whenever some provider answers RCODE 0 with
\* an NS or SOA record; the result is error only when every provider failed
\* or was non-decisive, and then carries the detail of the last failure.
C9_ProviderFallbackAsStated ==
  dPc = "returned" =>
    /\ ProviderOrder
    /\ (\E k \in 1..Len(dLog) : AnswersWithRecord(k))
         => dResult[1].status \in {"has-ns", "no-ns", "nxdomain"}

\* C9 (amended): the provider order and the error result as stated; the
\* result is one of has-ns, no-ns, nxdomain whenever some provider answers
\* RCODE 0 with an NS or SOA record, except for an NS response without an NS
\* record whose SOA request to the same provider fails: that provider then
\* counts as failed, the next provider is queried for NS, and after the last
\* provider the result is error with the network-error detail.
C9_ProviderFallback ==
  dPc = "returned" =>
    /\ ProviderOrder
    /\ (\E k \in 1..Len(dLog) :
          /\ AnswersWithRecord(k)
          /\ ~(~HasType(dLog[k].reply, 2) /\ SoaRequestFailed(k)))
         => dResult[1].status \in {"has-ns", "no-ns", "nxdomain"}
    /\ \A k \in 1..Len(dLog) :
         (Answered(k) /\ SoaRequestFailed(k)) =>
            IF k + 1 = Len(dLog)
            THEN /\ dResult[1].status = "error"
                 /\ dResult[1].detail = "dns.detail.network-error"
            ELSE /\ dLog[k + 2].record = "NS"
                 /\ dLog[k + 2].provider # dLog[k].provider

\* cloudflare answers the NS request with RCODE 0 and an SOA record in
\* Authority, its SOA request fails, google answers SERVFAIL: error
C9_Witness ==
  /\ dPc = "returned"
  /\ dPreferred = <<"cloudflare", "google">>
  /\ Len(dLog) = 3
  /\ dLog[1].provider = "cloudflare" /\ AnswersWithRecord(1)
  /\ dLog[1].reply[1].Authority = <<SOA_RECORD_TYPE>>
  /\ SoaRequestFailed(1)
  /\ dLog[3].provider = "google"
  /\ Answered(3) /\ dLog[3].reply[1].Status = 2
  /\ dResult[1].status = "error"
  /\ dResult[1].detail = "dns.detail.unexpected-status"

\* C10: at most 3 runDohQuery calls; attempt k + 1 is made only after an error
\* result of attempt k and a wait of k x 400 ms; a decisive result ends the
\* call at once; after the third error result the call returns that result.
C10_RetryEnvelope ==
  /\ dPc # "off" =>
       /\ dAttempt \in 1..3
       /\ Len(dCalls) <= 3
       /\ Len(dCalls) = IF dPc \in {"ns", "soa"} THEN dAttempt - 1 ELSE dAttempt
       /\ Len(dWaits) = IF dPc = "delay" THEN dAttempt ELSE dAttempt - 1
       /\ \A k \in 1..Len(dWaits) :
            dCalls[k].status = "error" /\ dWaits[k] = k * 400
       /\ \A k \in 1..Len(dCalls) :
            dCalls[k].status # "error" => (k = Len(dCalls) /\ dPc \in {"returned", "done"})
  /\ dPc = "done" =>
       /\ dReturn = <<dCalls[Len(dCalls)]>>
       /\ dReturn[1].status = "error" => Len(dCalls) = 3
  /\ dPc \in {"ns", "soa", "returned", "delay"} => dReturn = <<>>

C10_Witness ==
  /\ dPc = "done"
  /\ dReturn # <<>> /\ dReturn[1].status = "error"
  /\ dWaits = <<400, 800>>

(***************************************************************************)
(* rdapQuery.ts                                                            *)
(* A response of fetch is <<>> when fetch rejects (network failure), else  *)
(* <<[status, retryAfter, body]>>.  The Retry-After header is <<>> when    *)
(* absent, else <<h>> with h.kind "number" (a numeric string, h.n its      *)
(* value), "date" (an HTTP date, h.n its distance from Date.now() in ms)   *)
(* or "text" (anything else).  The body is "domain" (JSON with             *)
(* objectClassName "domain"), "object" (JSON with another or no            *)
(* objectClassName) or "not-json" (response.json() rejects).               *)
(***************************************************************************)
RDAP_RETRY_ATTEMPTS == 3

RDAP_RETRY_DELAY_MS == 1000

RetryAfterHeaders ==
  {<<>>,
   <<[kind |-> "number", n |-> 0]>>,
   <<[kind |-> "number", n |-> 2]>>,
   <<[kind |-> "number", n |-> 0 - 1]>>,
   <<[kind |-> "date", n |-> 2000]>>,
   <<[kind |-> "date", n |-> 400]>>,
   <<[kind |-> "date", n |-> 0 - 3000]>>,
   <<[kind |-> "text", n |-> 0]>>}

Bodies == {"domain", "object", "not-json"}

\* the header varies with a 429 and the body with a 200, where they are read
RdapResponses ==
  {<<>>}
  \cup {<<[status |-> 429, retryAfter |-> h, body |-> "object"]>> : h \in RetryAfterHeaders}
  \cup {<<[status |-> 200, retryAfter |-> <<>>, body |-> b]>> : b \in Bodies}
  \cup {<<[status |-> st, retryAfter |-> <<>>, body |-> "object"]>> :
          st \in HttpStatuses \ {200, 429}}

\* Math.round(ms / 1000) for ms > 0
roundSeconds(ms) == (ms + 500) \div 1000

\* <<>> is undefined
parseRetryAfter(value) ==
  IF value = <<>> THEN <<>>
  ELSE IF value[1].kind = "number" THEN <<value[1].n>>
  ELSE IF value[1].kind = "date" /\ value[1].n > 0 THEN <<roundSeconds(value[1].n)>>
  ELSE <<>>

RdapCheckResult(status, available, unsupported, detailKey, retryAfter) ==
  [status |-> status, available |-> available, unsupported |-> unsupported,
   detailKey |-> detailKey, retryAfter |-> retryAfter]

\* Mutant: 501 is taken for a server error.
runRdapQuery_501AsServerError(response) ==
  IF response = <<>> THEN <<>>
  ELSE LET status == response[1].status IN
    IF status = 404 THEN <<RdapCheckResult(404, "true", FALSE, "rdap.detail.status-404", <<>>)>>
    ELSE IF status = 429 THEN
      LET retryAfter == parseRetryAfter(response[1].retryAfter)
          given == retryAfter # <<>> /\ retryAfter[1] # 0
      IN <<RdapCheckResult(429, "null", FALSE,
                      IF given THEN "rdap.detail.status-429-wait" ELSE "rdap.detail.status-429",
                      IF given THEN retryAfter ELSE <<>>)>>
    ELSE IF status = 200 THEN
      IF response[1].body = "not-json" THEN <<>>
      ELSE LET isDomainObject == response[1].body = "domain" IN
           <<RdapCheckResult(200, IF isDomainObject THEN "false" ELSE "null", FALSE,
                        IF isDomainObject THEN "rdap.detail.status-200"
                        ELSE "rdap.detail.unexpected-object", <<>>)>>
    ELSE IF status = 400 \/ status = 405
      THEN <<RdapCheckResult(status, "null", TRUE, "rdap.detail.unsupported", <<>>)>>
    ELSE IF status >= 500
      THEN <<RdapCheckResult(status, "null", FALSE, "rdap.detail.server-error", <<>>)>>
    ELSE <<RdapCheckResult(status, "null", FALSE, "rdap.detail.http-error", <<>>)>>

\* <<>> when the call rejects, else << result >>.  detailParams.retryAfter is
\* the retryAfter field; detailParams.status repeats status.
runRdapQuery(response) ==
  IF response = <<>> THEN <<>>
  ELSE LET status == response[1].status IN
    IF status = 404 THEN <<RdapCheckResult(404, "true", FALSE, "rdap.detail.status-404", <<>>)>>
    ELSE IF status = 429 THEN
      LET retryAfter == parseRetryAfter(response[1].retryAfter)
          given == retryAfter # <<>> /\ retryAfter[1] # 0
      IN <<RdapCheckResult(429, "null", FALSE,
                      IF given THEN "rdap.detail.status-429-wait" ELSE "rdap.detail.status-429",
                      IF given THEN retryAfter ELSE <<>>)>>
    ELSE IF status = 200 THEN
      IF response[1].body = "not-json" THEN <<>>
      ELSE LET isDomainObject == response[1].body = "domain" IN
           <<RdapCheckResult(200, IF isDomainObject THEN "false" ELSE "null", FALSE,
                        IF isDomainObject THEN "rdap.detail.status-200"
                        ELSE "rdap.detail.unexpected-object", <<>>)>>
    ELSE IF status = 501 \/ status = 400 \/ status = 405
      THEN <<RdapCheckResult(status, "null", TRUE, "rdap.detail.unsupported", <<>>)>>
    ELSE IF status >= 500
      THEN <<RdapCheckResult(status, "null", FALSE, "rdap.detail.server-error", <<>>)>>
    ELSE <<RdapCheckResult(status, "null", FALSE, "rdap.detail.http-error", <<>>)>>

rdapAttempts == Max(RDAP_RETRY_ATTEMPTS, 1)

rdapBaseDelay == Max(RDAP_RETRY_DELAY_MS, 0)

\* the wait after a 429 result
waitMs(result, attempt) ==
  IF result.retryAfter # <<>> /\ result.retryAfter[1] > 0
  THEN result.retryAfter[1] * 1000
  ELSE rdapBaseDelay * attempt

\* Mutant: every result that is not decisive is retried.
retryResult_AllNonDecisive(result, attempt) ==
  result.available = "null" /\ ~result.unsupported /\ attempt < rdapAttempts

\* the condition under which a result is not returned but retried
retryResult(result, attempt) ==
  result.status = 429 /\ attempt < rdapAttempts

(***************************************************************************)
(* useAppState.tsx: the reducer.                                           *)
(* A domain item is its ascii name; a row is [id, dns, rdap, verdict,      *)
(* detail] (domain, ascii and tld repeat the id).  The fields              *)
(* input.updatedAt, dns.completedAt, settings and ui are written but never *)
(* read by the pipeline and are left out.                                  *)
(***************************************************************************)
\* row.rdap = null
NULL == 0

Domains == {"a.com", "b.com"}

defaultDns ==
  [stage |-> "idle", rows |-> <<>>, errorKey |-> "null", runId |-> 0,
   totalCount |-> 0, completedCount |-> 0]

defaultRdap ==
  [checkedCount |-> 0, totalCount |-> 0, running |-> FALSE, errorKey |-> "null"]

defaultState == [input |-> <<>>, dns |-> defaultDns, rdap |-> defaultRdap]

dedupeDomains(domains) == Unique(domains)

mergeDomains(existing, incoming) ==
  LET fresh == SelectSeq(Unique(incoming), LAMBDA d : d \notin SeqToSet(existing))
  IN IF Len(fresh) = 0 THEN [domains |-> existing, added |-> 0]
     ELSE [domains |-> existing \o fresh, added |-> Len(fresh)]

areDomainListsEqual(a, b) == a = b

\* Mutant: dns/success always moves on to rdap-checking.
dnsSuccess_RdapChecking(s, a) ==
  IF s.dns.runId # a.runId THEN s
  ELSE [s EXCEPT !.dns.stage = "rdap-checking",
                 !.dns.rows = a.rows,
                 !.dns.completedCount = s.dns.totalCount]

\* case "dns/success"
dnsSuccess(s, a) ==
  IF s.dns.runId # a.runId THEN s
  ELSE [s EXCEPT !.dns.stage = IF s.rdap.running THEN "rdap-checking" ELSE "done",
                 !.dns.rows = a.rows,
                 !.dns.completedCount = s.dns.totalCount]

\* Mutant: dns/progress without the runId guard.
dnsProgress_Unguarded(s, a) ==
  [s EXCEPT !.dns.completedCount = Min(a.completed, s.dns.totalCount)]

\* case "dns/progress"
dnsProgress(s, a) ==
  IF s.dns.runId # a.runId THEN s
  ELSE [s EXCEPT !.dns.completedCount = Min(a.completed, s.dns.totalCount)]

\* case "input/appendDomainBatch": the list grows, dns and rdap are kept
appendDomainBatch(s, a) ==
  LET m == mergeDomains(s.input, a.domains) IN
  IF m.added = 0 THEN s ELSE [s EXCEPT !.input = m.domains]

\* case "input/appendDomainBatchFinalize"
appendDomainBatchFinalize(s) ==
  [s EXCEPT !.dns = [s.dns EXCEPT !.stage = "idle", !.rows = <<>>, !.errorKey = "null",
                                  !.runId = s.dns.runId + 1,
                                  !.totalCount = 0, !.completedCount = 0],
            !.rdap = defaultRdap]

reducer(s, a) ==
  CASE a.type = "input/setDomains" ->
         LET normalized == dedupeDomains(a.domains) IN
         IF areDomainListsEqual(s.input, normalized) THEN s
         ELSE [input |-> normalized,
               dns |-> [s.dns EXCEPT !.stage = "idle", !.rows = <<>>, !.errorKey = "null",
                                     !.runId = s.dns.runId + 1,
                                     !.totalCount = 0, !.completedCount = 0],
               rdap |-> defaultRdap]
    [] a.type = "input/appendDomains" ->
         LET m == mergeDomains(s.input, a.domains) IN
         IF m.added = 0 THEN s
         ELSE [input |-> m.domains,
               dns |-> [s.dns EXCEPT !.stage = "idle", !.rows = <<>>, !.errorKey = "null",
                                     !.runId = s.dns.runId + 1,
                                     !.totalCount = 0, !.completedCount = 0],
               rdap |-> defaultRdap]
    [] a.type = "input/appendDomainBatch" -> appendDomainBatch(s, a)
    [] a.type = "input/appendDomainBatchFinalize" -> appendDomainBatchFinalize(s)
    [] a.type = "input/clear" ->
         IF Len(s.input) = 0 THEN s
         ELSE [input |-> <<>>,
               dns |-> [defaultDns EXCEPT !.runId = s.dns.runId + 1],
               rdap |-> defaultRdap]
    [] a.type = "dns/start" ->
         [s EXCEPT !.dns = [stage |-> "dns-checking", rows |-> <<>>, errorKey |-> "null",
                            runId |-> a.runId, totalCount |-> a.total, completedCount |-> 0],
                   !.rdap = defaultRdap]
    [] a.type = "dns/retry" ->
         [s EXCEPT !.dns = [s.dns EXCEPT !.stage = "dns-checking", !.errorKey = "null",
                                         !.runId = a.runId, !.totalCount = a.total,
                                         !.completedCount = 0],
                   !.rdap = defaultRdap]
    [] a.type = "dns/progress" -> dnsProgress(s, a)
    [] a.type = "dns/success" -> dnsSuccess(s, a)
    [] a.type = "dns/error" ->
         IF s.dns.runId # a.runId THEN s
         ELSE [s EXCEPT !.dns.stage = "error", !.dns.errorKey = a.messageKey]
    [] a.type = "rdap/start" ->
         [s EXCEPT !.dns.stage = "rdap-checking",
                   !.rdap = [s.rdap EXCEPT !.running = TRUE, !.errorKey = "null",
                                           !.checkedCount = 0, !.totalCount = a.total]]
    [] a.type = "rdap/update" ->
         [s EXCEPT !.dns.rows = a.rows,
                   !.rdap.running = TRUE,
                   !.rdap.checkedCount = a.checked]
    [] a.type = "rdap/error" ->
         [s EXCEPT !.dns.stage = "error",
                   !.rdap.running = FALSE,
                   !.rdap.errorKey = a.messageKey]
    [] a.type = "process/complete" ->
         [s EXCEPT !.dns.stage = "done",
                   !.dns.rows = IF a.payload # <<>> THEN a.payload[1].rows ELSE s.dns.rows,
                   !.rdap.running = FALSE]
    [] a.type = "process/reset" ->
         [s EXCEPT !.dns = [defaultDns EXCEPT !.runId = s.dns.runId + 1],
                   !.rdap = defaultRdap]
    [] OTHER -> s

RECURSIVE dispatchAll(_, _)
\* consecutive dispatch calls: the reducer is applied to each action in turn
dispatchAll(s, actions) ==
  IF actions = <<>> THEN s
  ELSE dispatchAll(reducer(s, Head(actions)), Tail(actions))

(***************************************************************************)
(* DnsPage.tsx and RdapPage.tsx: the handlers and the batches they start.  *)
(* A batch is the closure of one executeDnsBatch / runRdapBatch call:      *)
(* targets, rowOrder, workingMap and completed are its local variables,    *)
(* pending holds the targets whose task has not finished, runId is the     *)
(* runId argument of a DNS batch and, for an RDAP batch (which captures    *)
(* none), the dns.runId of the state it was started from.                  *)
(* The queues are given room for every task (the scheduler is the subject  *)
(* of SpecQueue), so tasks of a batch finish in any order.                 *)
(* Every click (an input change, Reset, Run, Retry) happens one            *)
(* millisecond after the click before it; Date.now() reads that clock.     *)
(***************************************************************************)
DomainLists == {<<"a.com">>, <<"a.com", "b.com">>}

\* The mounts of RdapPage.  A mount is named after the first RDAP batch
\* started in it; the mount on the screen is 0 while no batch started in it
\* is alive (its refs are then as useRef made them).
RdapPageMounts == 0..MaxNow

\* the name of the mount on the screen, given the batches and the
\* flushUpdates callbacks outstanding: 0 once no closure of a batch started
\* in it can run any more
mountOnScreen(bs, callbacks, mount) ==
  IF \E b \in 1..Len(bs) :
       /\ bs[b].kind = "rdap"
       /\ bs[b].mount = mount
       /\ bs[b].phase = "running" \/ callbacks[b] > 0
  THEN mount
  ELSE 0

\* what runDohQueryWithRetry resolves to (it never rejects: runDohQuery
\* catches the failures of its requests).  The pages treat no-ns and nxdomain
\* alike (shouldRunRdap, deriveDnsVerdict, deriveVerdictWithRdap); nxdomain
\* stands for both.
DnsResults ==
  {[status |-> "has-ns", detail |-> <<>>],
   [status |-> "nxdomain", detail |-> <<>>],
   [status |-> "error", detail |-> <<"dns.detail.network-error">>]}

\* what runRdapQueryWithRetry resolves to: a result that settles the row, or
\* a rejection (<<>>), which leaves the row to be retried
RdapResults ==
  {[status |-> 404, available |-> "true", unsupported |-> FALSE,
    detailKey |-> "rdap.detail.status-404"]}

RdapOutcomes == {<<>>} \cup {<<r>> : r \in RdapResults}

\* new Map(rows.map((row) => [row.id, { ...row }]))
toMap(rows) ==
  [id \in {rows[k].id : k \in 1..Len(rows)} |->
     (CHOOSE r \in SeqToSet(rows) : r.id = id)]

\* Mutant: the rows in the order in which their tasks completed, the
\* untouched ones last.
snapshot_ResolvedFirst(b) ==
  LET order == SelectSeq(b.rowOrder, LAMBDA id : id \notin b.pending)
               \o SelectSeq(b.rowOrder, LAMBDA id : id \in b.pending)
  IN [k \in 1..Len(order) |-> b.workingMap[order[k]]]

\* rowOrder.map((id) => workingMap.get(id)!)
snapshot(b) == [k \in 1..Len(b.rowOrder) |-> b.workingMap[b.rowOrder[k]]]

\* the locals of executeDnsBatch / runRdapBatch; retry tells the batch of
\* DnsPage's handleRetryFailed from the one of handleRunChecks, mount is the
\* mount of RdapPage whose refs the closures of an RDAP batch captured
newBatch(kind, runId, targets, baseRows) ==
  [kind |-> kind, runId |-> runId, retry |-> FALSE, mount |-> 0, targets |-> targets,
   baseRows |-> baseRows,
   rowOrder |-> [k \in 1..Len(baseRows) |-> baseRows[k].id],
   workingMap |-> toMap(baseRows),
   completed |-> 0, pending |-> SeqToSet(targets), rejected |-> FALSE,
   phase |-> "running"]

\* The locals of a handler that has returned and has no flushUpdates callback
\* outstanding are unreachable: they are cleared, so that states differing
\* only in such garbage coincide.  kind, runId, retry and phase stay as
\* history.
retire(bs, callbacks) ==
  [k \in 1..Len(bs) |->
     IF bs[k].phase = "ended" /\ callbacks[k] = 0
     THEN [bs[k] EXCEPT !.targets = <<>>, !.baseRows = <<>>, !.rowOrder = <<>>,
                        !.workingMap = <<>>, !.completed = 0, !.mount = 0]
     ELSE bs[k]]

rdapCandidates == SelectSeq(state.dns.rows, LAMBDA row : shouldRunRdap(row.dns))

failedRdapRows ==
  SelectSeq(rdapCandidates,
            LAMBDA row : \/ row.rdap = 429
                         \/ /\ row.detail # <<>>
                            /\ "rdap.detail.network-error" \in SeqToSet(row.detail))

\* useReducer(reducer, defaultState, init): the input is the list persistInput
\* stored in an earlier session, if there is one
InitApp ==
  /\ \E persisted \in {<<>>} \cup DomainLists :
       state = [defaultState EXCEPT !.input = persisted]
  /\ now = 0
  /\ batches = <<>>
  /\ rdapPageMount = 0
  /\ pendingUpdateIdsRef = [m \in RdapPageMounts |-> {}]
  /\ rafIdRef = [m \in RdapPageMounts |-> 0]
  /\ rafCallbacks = [b \in 1..MaxNow |-> 0]
  /\ VerdictOff
  /\ QueueOff
  /\ DohOff
  /\ RdapOff
  /\ NormOff
  /\ PersistOff
  /\ LookupOff
  /\ CheckOff
  /\ InputOff
  /\ BootOff

\* the tabs of the input page (input/setDomains has no dispatcher)
InputAppendDomains(domains) ==
  /\ now < MaxNow
  /\ now' = now + 1
  /\ state' = reducer(state, [type |-> "input/appendDomains", domains |-> domains])
  /\ UNCHANGED <<batches, rdapPageMount, pendingUpdateIdsRef, rafIdRef, rafCallbacks>>
  /\ UNCHANGED <<reconcileVars, queueVars, dohVars, rdapVars, normVars, persistVars, lookupVars, checkVars, inputVars, bootVars>>

\* the dictionary tab hands over each generated batch as it is ready
\* (input/appendDomainBatchFinalize has no dispatcher)
InputAppendDomainBatch(domains) ==
  /\ now < MaxNow
  /\ now' = now + 1
  /\ state' = reducer(state, [type |-> "input/appendDomainBatch", domains |-> domains])
  /\ UNCHANGED <<batches, rdapPageMount, pendingUpdateIdsRef, rafIdRef, rafCallbacks>>
  /\ UNCHANGED <<reconcileVars, queueVars, dohVars, rdapVars, normVars, persistVars, lookupVars, checkVars, inputVars, bootVars>>

InputClear ==
  /\ now < MaxNow
  /\ now' = now + 1
  /\ Len(state.input) # 0
  /\ state' = reducer(state, [type |-> "input/clear"])
  /\ UNCHANGED <<batches, rdapPageMount, pendingUpdateIdsRef, rafIdRef, rafCallbacks>>
  /\ UNCHANGED <<reconcileVars, queueVars, dohVars, rdapVars, normVars, persistVars, lookupVars, checkVars, inputVars, bootVars>>

\* the Reset button of DnsPage and RdapPage
ProcessReset ==
  /\ now < MaxNow
  /\ now' = now + 1
  /\ state' = reducer(state, [type |-> "process/reset"])
  /\ UNCHANGED <<batches, rdapPageMount, pendingUpdateIdsRef, rafIdRef, rafCallbacks>>
  /\ UNCHANGED <<reconcileVars, queueVars, dohVars, rdapVars, normVars, persistVars, lookupVars, checkVars, inputVars, bootVars>>

\* handleRunChecks up to its await: dns/start and the start of the batch
HandleRunChecks ==
  /\ state.dns.stage # "dns-checking"
  /\ Len(state.input) # 0
  /\ now < MaxNow
  /\ LET runId == now + 1
         total == Len(state.input)
           baseRows == [k \in 1..Len(state.input) |->
                        [id |-> state.input[k], dns |-> "error", rdap |-> NULL,
                         verdict |-> "undetermined", detail |-> <<>>]]
     IN /\ now' = runId
        /\ state' = reducer(state, [type |-> "dns/start", runId |-> runId, total |-> total])
        /\ batches' = Append(batches,
                             newBatch("dns", runId,
                                      [k \in 1..Len(baseRows) |-> baseRows[k].id], baseRows))
  /\ UNCHANGED <<rdapPageMount, pendingUpdateIdsRef, rafIdRef, rafCallbacks>>
  /\ UNCHANGED <<reconcileVars, queueVars, dohVars, rdapVars, normVars, persistVars, lookupVars, checkVars, inputVars, bootVars>>

\* Mutant: retry-failed queries every row again.
failedDnsRows_All == state.dns.rows

\* baseRows.filter((row) => failedIds.has(row.id))
failedDnsRows == SelectSeq(state.dns.rows, LAMBDA row : row.dns = "error")

\* DnsPage's handleRetryFailed up to its await: dns/retry and the start of the batch
HandleRetryFailedDns ==
  /\ state.dns.stage # "dns-checking"
  /\ LET failed == failedDnsRows
         baseRows == state.dns.rows
         runId == now + 1
     IN /\ Len(failed) # 0
        /\ now < MaxNow
        /\ now' = runId
        /\ state' = reducer(state, [type |-> "dns/retry", runId |-> runId,
                                    total |-> Len(failed)])
        /\ batches' = Append(batches,
                             [newBatch("dns", runId,
                                       [k \in 1..Len(failed) |-> failed[k].id], baseRows)
                                EXCEPT !.retry = TRUE])
  /\ UNCHANGED <<rdapPageMount, pendingUpdateIdsRef, rafIdRef, rafCallbacks>>
  /\ UNCHANGED <<reconcileVars, queueVars, dohVars, rdapVars, normVars, persistVars, lookupVars, checkVars, inputVars, bootVars>>

\* the body of one task of executeDnsBatch: queried is << result >> when
\* runDohQueryWithRetry resolves and <<>> when it rejects; the value is the
\* row put into workingMap and how the task's promise settles
dnsTask(baseRow, queried) ==
  IF queried # <<>>
  THEN [row |-> [baseRow EXCEPT !.dns = queried[1].status,
                                !.rdap = NULL,
                                !.verdict = deriveDnsVerdict(queried[1].status),
                                !.detail = mergeDetails(queried[1].detail,
                                                        <<"dns.detail.source">>)],
        settled |-> "fulfilled"]
  ELSE [row |-> [baseRow EXCEPT !.dns = "error",
                                !.rdap = NULL,
                                !.verdict = "undetermined",
                                !.detail = <<"dns.detail.network-error">>],
        settled |-> "fulfilled"]

\* one task of executeDnsBatch runs to its end: the row goes into workingMap
\* and the finally block dispatches dns/progress
dnsTaskEnds(b, id, queried) ==
  /\ batches[b].kind = "dns"
  /\ batches[b].phase = "running"
  /\ id \in batches[b].pending
  /\ LET ended == dnsTask(batches[b].workingMap[id], queried)
         completed == batches[b].completed + 1
     IN /\ batches' = [batches EXCEPT ![b].workingMap[id] = ended.row,
                                      ![b].completed = completed,
                                      ![b].pending = @ \ {id},
                                      ![b].rejected = @ \/ ended.settled = "rejected"]
        /\ state' = reducer(state, [type |-> "dns/progress", runId |-> batches[b].runId,
                                    completed |-> completed])
  /\ UNCHANGED <<now, rdapPageMount, pendingUpdateIdsRef, rafIdRef, rafCallbacks>>
  /\ UNCHANGED <<reconcileVars, queueVars, dohVars, rdapVars, normVars, persistVars, lookupVars, checkVars, inputVars, bootVars>>

\* the task ends after runDohQueryWithRetry has resolved to result
DnsTaskDone(b, id, result) == dnsTaskEnds(b, id, << result >>)

\* the task ends after runDohQueryWithRetry has rejected
DnsTaskThrows(b, id) == dnsTaskEnds(b, id, <<>>)

\* the actions handleRunChecks / handleRetryFailed dispatch after
\* await executeDnsBatch(...)
dnsBatchDispatches(b) ==
  LET nextRows == snapshot(b)
      requiresRdap == \E k \in 1..Len(nextRows) : shouldRunRdap(nextRows[k].dns)
  IN <<[type |-> "dns/success", rows |-> nextRows, runId |-> b.runId]>>
     \o (IF ~requiresRdap
         THEN <<[type |-> "process/complete", payload |-> <<[rows |-> nextRows]>>]>>
         ELSE <<>>)

\* Promise.all of executeDnsBatch resolves and the handler continues.  The
\* tasks catch what they await, so the handler's catch branch (dns/error) is
\* not entered.
DnsBatchEnd(b) ==
  /\ batches[b].kind = "dns"
  /\ batches[b].phase = "running"
  /\ batches[b].pending = {}
  /\ ~batches[b].rejected
  /\ state' = dispatchAll(state, dnsBatchDispatches(batches[b]))
  /\ batches' = retire([batches EXCEPT ![b].phase = "ended"], rafCallbacks)
  /\ UNCHANGED <<now, rdapPageMount, pendingUpdateIdsRef, rafIdRef, rafCallbacks>>
  /\ UNCHANGED <<reconcileVars, queueVars, dohVars, rdapVars, normVars, persistVars, lookupVars, checkVars, inputVars, bootVars>>

\* runRdapBatch up to its await: the throttle state is cleared, rdap/start is
\* dispatched and the batch starts
runRdapBatch(targets) ==
  /\ Len(targets) # 0
  /\ now < MaxNow
  /\ now' = now + 1
  /\ rdapPageMount' = IF rdapPageMount = 0 THEN Len(batches) + 1 ELSE rdapPageMount
  /\ pendingUpdateIdsRef' = [pendingUpdateIdsRef EXCEPT ![rdapPageMount'] = {}]
  /\ rafIdRef' = [rafIdRef EXCEPT ![rdapPageMount'] = 0]
  /\ rafCallbacks' = IF rafIdRef[rdapPageMount] # 0
                     THEN [rafCallbacks EXCEPT ![rafIdRef[rdapPageMount]] = @ - 1]
                     ELSE rafCallbacks
  /\ state' = reducer(state, [type |-> "rdap/start", total |-> Len(targets)])
  /\ batches' = Append(retire(batches, rafCallbacks'),
                       [newBatch("rdap", state.dns.runId,
                                 [k \in 1..Len(targets) |-> targets[k].id],
                                 state.dns.rows)
                          EXCEPT !.mount = rdapPageMount'])
  /\ UNCHANGED <<reconcileVars, queueVars, dohVars, rdapVars, normVars, persistVars, lookupVars, checkVars, inputVars, bootVars>>

\* the user leaves the RDAP page and comes back: RdapPage unmounts and
\* mounts.  The cleanup of the effect calls clear() (the queue holds no
\* waiting task); the new mount has a pendingUpdateIdsRef and a rafIdRef of
\* its own, while the closures of the batches started before keep the refs
\* of the mount they were created in.
RdapPageRemounts ==
  /\ rdapPageMount' = 0
  /\ UNCHANGED <<state, now, batches, pendingUpdateIdsRef, rafIdRef, rafCallbacks>>
  /\ UNCHANGED <<reconcileVars, queueVars, dohVars, rdapVars, normVars, persistVars, lookupVars, checkVars, inputVars, bootVars>>

HandleRunRdap ==
  /\ ~state.rdap.running
  /\ Len(state.dns.rows) # 0
  /\ Len(rdapCandidates) # 0
  /\ runRdapBatch(rdapCandidates)

\* RdapPage's handleRetryFailed
HandleRetryFailedRdap ==
  /\ ~state.rdap.running
  /\ Len(failedRdapRows) # 0
  /\ runRdapBatch(failedRdapRows)

\* Mutant: the task of runRdapBatch without its catch block.
rdapTask_NoCatch(baseRow, rdapResult) ==
  IF rdapResult # <<>>
  THEN [row |-> [baseRow EXCEPT
                   !.rdap = rdapResult[1].status,
                   !.verdict = deriveVerdictWithRdap(baseRow.dns, rdapResult),
                   !.detail = mergeDetails(mergeDetails(baseRow.detail,
                                                        <<"rdap.detail.source">>),
                                           <<rdapResult[1].detailKey>>)],
        settled |-> "fulfilled"]
  ELSE [row |-> baseRow, settled |-> "rejected"]

\* the body of one task of runRdapBatch: rdapResult is << result >> when
\* runRdapQueryWithRetry resolves and <<>> when it rejects
rdapTask(baseRow, rdapResult) ==
  IF rdapResult # <<>>
  THEN [row |-> [baseRow EXCEPT
                   !.rdap = rdapResult[1].status,
                   !.verdict = deriveVerdictWithRdap(baseRow.dns, rdapResult),
                   !.detail = mergeDetails(mergeDetails(baseRow.detail,
                                                        <<"rdap.detail.source">>),
                                           <<rdapResult[1].detailKey>>)],
        settled |-> "fulfilled"]
  ELSE [row |-> [baseRow EXCEPT
                   !.rdap = baseRow.rdap,
                   !.verdict = deriveVerdictWithRdap(baseRow.dns, <<>>),
                   !.detail = mergeDetails(baseRow.detail, <<"rdap.detail.network-error">>)],
        settled |-> "fulfilled"]

\* one task of runRdapBatch runs to its end: updateSnapshot and scheduleFlush
RdapTaskDone(b, id, rdapResult) ==
  /\ batches[b].kind = "rdap"
  /\ batches[b].phase = "running"
  /\ id \in batches[b].pending
  /\ LET ended == rdapTask(batches[b].workingMap[id], rdapResult)
     IN batches' = [batches EXCEPT ![b].workingMap[id] = ended.row,
                                   ![b].completed = @ + 1,
                                   ![b].pending = @ \ {id},
                                   ![b].rejected = @ \/ ended.settled = "rejected"]
  /\ pendingUpdateIdsRef' = [pendingUpdateIdsRef EXCEPT ![batches[b].mount] = @ \cup {id}]
  /\ IF rafIdRef[batches[b].mount] # 0
     THEN UNCHANGED <<rafIdRef, rafCallbacks>>
     ELSE /\ rafIdRef' = [rafIdRef EXCEPT ![batches[b].mount] = b]
          /\ rafCallbacks' = [rafCallbacks EXCEPT ![b] = @ + 1]
  /\ UNCHANGED <<state, now, rdapPageMount>>
  /\ UNCHANGED <<reconcileVars, queueVars, dohVars, rdapVars, normVars, persistVars, lookupVars, checkVars, inputVars, bootVars>>

\* flushUpdates of batch b: the actions it dispatches
flushDispatches(b) ==
  IF pendingUpdateIdsRef[b.mount] = {} THEN <<>>
  ELSE <<[type |-> "rdap/update", rows |-> snapshot(b),
          checked |-> Min(b.completed, Len(b.targets))]>>

\* the browser calls a flushUpdates it was handed by requestAnimationFrame
RafFires(b) ==
  /\ rafCallbacks[b] > 0
  /\ rafCallbacks' = [rafCallbacks EXCEPT ![b] = @ - 1]
  /\ rafIdRef' = [rafIdRef EXCEPT ![batches[b].mount] = 0]
  /\ pendingUpdateIdsRef' = [pendingUpdateIdsRef EXCEPT ![batches[b].mount] = {}]
  /\ state' = dispatchAll(state, flushDispatches(batches[b]))
  /\ batches' = retire(batches, rafCallbacks')
  /\ rdapPageMount' = mountOnScreen(batches', rafCallbacks', rdapPageMount)
  /\ UNCHANGED now
  /\ UNCHANGED <<reconcileVars, queueVars, dohVars, rdapVars, normVars, persistVars, lookupVars, checkVars, inputVars, bootVars>>

\* Promise.all of runRdapBatch resolves: flushUpdates(), then
\* process/complete.  The tasks catch what they await, so the catch branch
\* (rdap/error) is not entered.
RdapBatchEnd(b) ==
  /\ batches[b].kind = "rdap"
  /\ batches[b].phase = "running"
  /\ batches[b].pending = {}
  /\ ~batches[b].rejected
  /\ rafIdRef' = [rafIdRef EXCEPT ![batches[b].mount] = 0]
  /\ pendingUpdateIdsRef' = [pendingUpdateIdsRef EXCEPT ![batches[b].mount] = {}]
  /\ state' = dispatchAll(state,
                flushDispatches(batches[b])
                \o <<[type |-> "process/complete",
                      payload |-> <<[rows |-> snapshot(batches[b])]>>]>>)
  /\ batches' = retire([batches EXCEPT ![b].phase = "ended"], rafCallbacks)
  /\ rdapPageMount' = mountOnScreen(batches', rafCallbacks, rdapPageMount)
  /\ UNCHANGED <<now, rafCallbacks>>
  /\ UNCHANGED <<reconcileVars, queueVars, dohVars, rdapVars, normVars, persistVars, lookupVars, checkVars, inputVars, bootVars>>

BatchIds == 1..Len(batches)

NextApp ==
  \/ \E domains \in DomainLists : InputAppendDomains(domains)
  \/ \E domains \in DomainLists : InputAppendDomainBatch(domains)
  \/ InputClear
  \/ ProcessReset
  \/ HandleRunChecks
  \/ HandleRetryFailedDns
  \/ \E b \in BatchIds : \E id \in Domains : \E result \in DnsResults : DnsTaskDone(b, id, result)
  \/ \E b \in BatchIds : DnsBatchEnd(b)
  \/ RdapPageRemounts
  \/ HandleRunRdap
  \/ HandleRetryFailedRdap
  \/ \E b \in BatchIds : \E id \in Domains : \E rdapResult \in RdapOutcomes : RdapTaskDone(b, id, rdapResult)
  \/ \E b \in BatchIds : RafFires(b)
  \/ \E b \in BatchIds : RdapBatchEnd(b)

SpecApp == InitApp /\ [][NextApp]_vars

\* --- properties of the pages and the reducer ---
Stage == state.dns.stage

Counters ==
  <<state.dns.completedCount, state.dns.totalCount,
    state.rdap.checkedCount, state.rdap.totalCount>>

\* a step in which batch b dispatches what a completion of it dispatches:
\* dns/progress, dns/success and process/complete, rdap/update
Completion(b) ==
  \/ \E id \in Domains : \E result \in DnsResults : DnsTaskDone(b, id, result)
  \/ DnsBatchEnd(b)
  \/ RafFires(b)
  \/ RdapBatchEnd(b)

Superseded(b) == batches[b].runId # state.dns.runId

\* C1 (as stated): once the state has a runId other than the one a batch
\* belongs to, no completion of that batch changes dns.rows, dns.stage or the
\* progress counters.
C1_StaleCompletionsDiscarded ==
  [][\A b \in BatchIds :
       (Superseded(b) /\ Completion(b)) =>
          /\ state'.dns.rows = state.dns.rows
          /\ state'.dns.stage = state.dns.stage
          /\ Counters' = Counters]_vars

RdapStatuses == {"no-ns", "nxdomain", "error"}

\* C5: only rows with dns no-ns, nxdomain or error are submitted to an RDAP
\* batch, and a row with dns has-ns has rdap = null and verdict taken, in
\* the state and in every batch.
C5_RdapOnlyForCandidates ==
  /\ \A k \in 1..Len(state.dns.rows) :
       state.dns.rows[k].dns = "has-ns" =>
          state.dns.rows[k].rdap = NULL /\ state.dns.rows[k].verdict = "taken"
  /\ \A b \in BatchIds :
       /\ \A id \in DOMAIN batches[b].workingMap :
            batches[b].workingMap[id].dns = "has-ns" =>
               /\ batches[b].workingMap[id].rdap = NULL
               /\ batches[b].workingMap[id].verdict = "taken"
       /\ batches[b].kind = "rdap" =>
            \A k \in 1..Len(batches[b].targets) :
               batches[b].workingMap[batches[b].targets[k]].dns \in RdapStatuses

\* an RDAP batch has answered for one row while the has-ns row beside it was
\* left alone
C5_Witness ==
  /\ Len(state.dns.rows) = 2
  /\ \E k \in 1..2 :
       /\ state.dns.rows[k].dns = "has-ns"
       /\ state.dns.rows[k].rdap = NULL
       /\ state.dns.rows[k].verdict = "taken"
  /\ \E k \in 1..2 : state.dns.rows[k].rdap = 404
  /\ \E b \in BatchIds : batches[b].kind = "rdap" /\ batches[b].phase = "ended"

StageMoves ==
  {<<"idle", "dns-checking">>, <<"dns-checking", "rdap-checking">>,
   <<"rdap-checking", "done">>, <<"dns-checking", "done">>}

\* C6 (as stated): while the runId stays the same the stage moves only along
\* idle -> dns-checking, dns-checking -> rdap-checking, rdap-checking -> done,
\* dns-checking -> done, and into error.
C6_StageMoves ==
  [][state'.dns.runId = state.dns.runId =>
       \/ Stage' = Stage
       \/ Stage' = "error"
       \/ <<Stage, Stage'>> \in StageMoves]_vars

requiresRdap(b) ==
  \E k \in 1..Len(snapshot(batches[b])) : snapshot(batches[b])[k].dns \in RdapStatuses

CurrentDnsBatchEnds(b) ==
  /\ DnsBatchEnd(b)
  /\ batches[b].runId = state.dns.runId

\* C7 (as stated): when the DNS batch of the current run completes the stage
\* becomes done if no row has dns no-ns, nxdomain or error; otherwise it
\* becomes rdap-checking and an RDAP batch is started.
C7_CompletionAsStated ==
  [][\A b \in BatchIds :
       CurrentDnsBatchEnds(b) =>
          IF requiresRdap(b)
          THEN Stage' = "rdap-checking" /\ Len(batches') = Len(batches) + 1
          ELSE Stage' = "done"]_vars

\* C7 (amended): when the DNS batch of the current run completes the rows
\* become the rows of the batch and the stage becomes done if no row has dns
\* no-ns, nxdomain or error; otherwise the stage becomes rdap-checking if an
\* RDAP batch is marked as running and done if none is, and no RDAP batch is
\* started.
C7_DnsCompletion ==
  [][\A b \in BatchIds :
       CurrentDnsBatchEnds(b) =>
          /\ state'.dns.rows = snapshot(batches[b])
          /\ Len(batches') = Len(batches)
          /\ IF requiresRdap(b)
             THEN /\ Stage' = (IF state.rdap.running THEN "rdap-checking" ELSE "done")
                  /\ state'.rdap = state.rdap
             ELSE /\ Stage' = "done"
                  /\ ~state'.rdap.running]_vars

\* the DNS batch of the current run has ended with a row that needs RDAP:
\* the stage is done and no RDAP batch exists
C7_Witness ==
  /\ \E b \in BatchIds :
       /\ batches[b].kind = "dns"
       /\ batches[b].phase = "ended"
       /\ batches[b].runId = state.dns.runId
  /\ Stage = "done"
  /\ \E k \in 1..Len(state.dns.rows) : state.dns.rows[k].dns \in RdapStatuses
  /\ \A b \in BatchIds : batches[b].kind = "dns"

\* the ids of a row list, in order
Ids(rows) == [k \in 1..Len(rows) |-> rows[k].id]

\* C15: DNS retry-failed starts, under a greater runId and with the rows left
\* in place, a batch whose targets are exactly the rows with dns error; when
\* the batch completes as the current run the rows have the ids of the rows at
\* the invocation, in their order, and every row whose dns was not error then
\* is equal to what it was then.
C15_RetryFailedFrame ==
  [][/\ HandleRetryFailedDns =>
          /\ state'.dns.runId > state.dns.runId
          /\ state'.dns.rows = state.dns.rows
          /\ batches'[Len(batches')].baseRows = state.dns.rows
          /\ SeqToSet(batches'[Len(batches')].targets) =
               {state.dns.rows[k].id : k \in {j \in 1..Len(state.dns.rows) :
                                                 state.dns.rows[j].dns = "error"}}
     /\ \A b \in BatchIds :
          (CurrentDnsBatchEnds(b) /\ batches[b].retry) =>
             /\ Ids(state'.dns.rows) = Ids(batches[b].baseRows)
             /\ \A k \in 1..Len(batches[b].baseRows) :
                  batches[b].baseRows[k].dns # "error" =>
                     state'.dns.rows[k] = batches[b].baseRows[k]]_vars

\* a retry batch has completed as the current run: the row that had an NS
\* record is as the first run left it and the re-queried row has changed
C15_Witness ==
  /\ Len(batches) = 2
  /\ batches[2].retry
  /\ batches[2].phase = "ended"
  /\ batches[2].runId = state.dns.runId
  /\ Len(state.dns.rows) = 2
  /\ state.dns.rows[1].dns = "has-ns"
  /\ state.dns.rows[2].dns = "nxdomain"

\* s2 is a reset of s: a greater runId, stage idle, no rows, counters zero
ResetOf(s, s2) ==
  /\ s2.dns.runId > s.dns.runId
  /\ s2.dns.stage = "idle"
  /\ s2.dns.rows = <<>>
  /\ s2.dns.totalCount = 0
  /\ s2.dns.completedCount = 0
  /\ s2.rdap.totalCount = 0
  /\ s2.rdap.checkedCount = 0

\* input/setDomains, which no component dispatches, with every list
SetDomainsActions ==
  {[type |-> "input/setDomains", domains |-> d] : d \in {<<>>} \cup DomainLists}

\* C16 (as stated): process/reset, and every input action (set, append, batch
\* append, clear) that changes the committed domain list, gives a state with
\* a strictly greater runId, stage idle, no rows and the DNS and RDAP
\* counters at zero.
C16_InputChangeResets ==
  [][/\ (ProcessReset \/ state'.input # state.input) => ResetOf(state, state')
     /\ \A a \in SetDomainsActions :
          reducer(state, a).input # state.input => ResetOf(state, reducer(state, a))]_vars

\* C17 (as stated): every start, retry-failed, reset and input-change action
\* leaves a runId strictly greater than the one before it, and no step ever
\* lowers the runId.
C17_RunIdStrictlyIncreasing ==
  [][/\ (\/ HandleRunChecks
         \/ HandleRetryFailedDns
         \/ ProcessReset
         \/ state'.input # state.input) => state'.dns.runId > state.dns.runId
     /\ state'.dns.runId >= state.dns.runId]_vars

\* a task of the DNS batch of the current run resolves
CurrentDnsTaskDone ==
  \E b \in BatchIds : \E id \in Domains : \E result \in DnsResults :
    DnsTaskDone(b, id, result) /\ batches[b].runId = state.dns.runId

\* C18: dns.completedCount goes up by one with each task of the current run
\* that resolves; it is never below 0 nor above dns.totalCount; while the
\* runId stays the same it never goes down.
C18_DnsProgress ==
  [][/\ 0 <= state'.dns.completedCount
     /\ state'.dns.completedCount <= state'.dns.totalCount
     /\ CurrentDnsTaskDone => state'.dns.completedCount = state.dns.completedCount + 1
     /\ state'.dns.runId = state.dns.runId =>
          state'.dns.completedCount >= state.dns.completedCount]_vars

\* one of the two tasks of the running batch has resolved and the counter shows it
C18_Witness ==
  /\ state.dns.stage = "dns-checking"
  /\ state.dns.totalCount = 2
  /\ state.dns.completedCount = 1
  /\ \E b \in BatchIds :
       /\ batches[b].runId = state.dns.runId
       /\ batches[b].phase = "running"
       /\ batches[b].completed = 1

(***************************************************************************)
(* Specification of the batches with every outcome of a task: one DNS run  *)
(* and the RDAP batches after it, where a query resolves to any of its     *)
(* results or rejects.  The list is not edited and nothing is reset.       *)
(***************************************************************************)
\* what the RDAP query of a task ends with: the classification of the last
\* response, or a rejection (<<>>)
BatchRdapOutcomes ==
  {runRdapQuery(response) :
     response \in {r \in RdapResponses :
                     \/ r = <<>>
                     \/ /\ r[1].retryAfter = <<>>
                        /\ r[1].status \in {404, 429}}}

\* the number of batches of one behaviour: the DNS run and the RDAP runs and
\* retries that follow it
MaxBatches == 3

InitBatch == InitApp

NextBatch ==
  \/ (batches = <<>> /\ HandleRunChecks)
  \/ \E b \in BatchIds : \E id \in Domains : \E result \in DnsResults : DnsTaskDone(b, id, result)
  \/ \E b \in BatchIds : \E id \in Domains : DnsTaskThrows(b, id)
  \/ \E b \in BatchIds : DnsBatchEnd(b)
  \/ RdapPageRemounts
  \/ (Len(batches) < MaxBatches /\ HandleRunRdap)
  \/ (Len(batches) < MaxBatches /\ HandleRetryFailedRdap)
  \/ \E b \in BatchIds : \E id \in Domains : \E rdapResult \in BatchRdapOutcomes :
       RdapTaskDone(b, id, rdapResult)
  \/ \E b \in BatchIds : RafFires(b)
  \/ \E b \in BatchIds : RdapBatchEnd(b)

SpecBatch == InitBatch /\ [][NextBatch]_vars

\* the DNS task of id in batch b ends with a failure: an error result or a
\* rejected query
DnsTaskFails(b, id) ==
  \/ DnsTaskThrows(b, id)
  \/ \E result \in DnsResults : result.status = "error" /\ DnsTaskDone(b, id, result)

\* the RDAP task of id in batch b ends with a failure: a rejected query or a
\* result that settles nothing
RdapTaskFails(b, id) ==
  \E rdapResult \in BatchRdapOutcomes :
    /\ rdapResult = <<>> \/ (rdapResult[1].available = "null" /\ ~rdapResult[1].unsupported)
    /\ RdapTaskDone(b, id, rdapResult)

\* C21: the failure of a task is written into the row of its own domain and
\* into no other; the batch is not rejected and goes on running with the
\* tasks of the other domains still to come; and a batch ends, without an
\* error stage, with one row for each of its base rows.
C21_FailureIsolation ==
  [][/\ \A b \in BatchIds : \A id \in Domains :
          (DnsTaskFails(b, id) \/ RdapTaskFails(b, id)) =>
             /\ ~batches'[b].rejected
             /\ batches'[b].phase = "running"
             /\ batches'[b].pending = batches[b].pending \ {id}
             /\ \A other \in DOMAIN batches[b].workingMap \ {id} :
                  batches'[b].workingMap[other] = batches[b].workingMap[other]
             /\ LET row == batches'[b].workingMap[id] IN
                  /\ row.id = id
                  /\ row.verdict = "undetermined"
                  /\ batches[b].kind = "dns" => row.dns = "error"
                  /\ batches[b].kind = "rdap" =>
                       \/ row.rdap = 429
                       \/ "rdap.detail.network-error" \in SeqToSet(row.detail)
     /\ \A b \in BatchIds :
          (DnsBatchEnd(b) \/ RdapBatchEnd(b)) =>
             /\ Ids(state'.dns.rows) = Ids(batches[b].baseRows)
             /\ state'.dns.rows = snapshot(batches[b])
             /\ state'.dns.stage = "done"
             /\ state'.dns.errorKey = "null"
             /\ state'.rdap.errorKey = "null"]_vars

\* the RDAP batch over two rows has ended: the query of the first row was
\* rejected and the second row has its result
C21_Witness ==
  /\ Len(batches) = 2
  /\ batches[2].kind = "rdap"
  /\ batches[2].phase = "ended"
  /\ state.dns.stage = "done"
  /\ Len(state.dns.rows) = 2
  /\ "rdap.detail.network-error" \in SeqToSet(state.dns.rows[1].detail)
  /\ state.dns.rows[1].rdap = NULL
  /\ state.dns.rows[2].rdap = 404
  /\ state.dns.rows[2].verdict = "available"

\* C30: in every state the verdict of a row of dns.rows is the one that goes
\* with the row's own dns and rdap fields: available with rdap = 404,
\* rdap-unsupported with rdap in {400, 405, 501}, and with rdap = null taken
\* for dns = has-ns and undetermined for dns = error.
C30_VerdictFromOwnFields ==
  state # <<>> =>
    \A k \in 1..Len(state.dns.rows) :
      LET row == state.dns.rows[k]
      IN  /\ row.rdap = 404 => row.verdict = "available"
          /\ row.rdap \in {400, 405, 501} => row.verdict = "rdap-unsupported"
          /\ (row.rdap = NULL /\ row.dns = "has-ns") => row.verdict = "taken"
          /\ (row.rdap = NULL /\ row.dns = "error") => row.verdict = "undetermined"

\* the most recent RDAP attempt for the row ended with status 429 or with a
\* network error: a task appends the detail of its attempt to the detail of
\* the row
LastRdapAttemptFailed(row) ==
  /\ row.detail # <<>>
  /\ row.detail[Len(row.detail)] \in {"rdap.detail.network-error", "rdap.detail.status-429",
                                       "rdap.detail.status-429-wait"}

\* C31: when no RDAP batch is running, the rows Retry failed of the RDAP page
\* would re-run are exactly the RDAP candidates whose most recent RDAP
\* attempt ended with status 429 or with a network error.
C31_RetryFailedRdapRows ==
  (state # <<>> /\ ~state.rdap.running) =>
     Ids(failedRdapRows) =
       Ids(SelectSeq(rdapCandidates, LAMBDA row : LastRdapAttemptFailed(row)))

\* the domains whose DNS task of the current run has not resolved yet
DnsInFlight ==
  UNION {batches[b].pending : b \in {c \in BatchIds : /\ batches[c].kind = "dns"
                                                      /\ batches[c].phase = "running"
                                                      /\ batches[c].runId = state.dns.runId}}

\* C19 (as stated): an RDAP batch is started only for domains whose DNS task
\* of the current run has resolved; none of its tasks is for a domain whose
\* DNS task is still queued or in flight.
C19_RdapAfterDns ==
  [][(HandleRunRdap \/ HandleRetryFailedRdap) =>
        SeqToSet(batches'[Len(batches')].targets) \cap DnsInFlight = {}]_vars

\* the batches whose locals are still in use
LiveBatches == {b \in BatchIds : batches[b].phase = "running" \/ rafCallbacks[b] > 0}

\* C20: the row list a DNS or RDAP batch would dispatch has at every moment
\* the ids of its base rows, in their order; the rows a batch writes into
\* the state (dns/success, rdap/update, process/complete) have them too; and
\* the completion of a task changes, in the rows of its batch, none but the
\* row of its own id.
C20_StableRowOrder ==
  [][/\ \A b \in LiveBatches : Ids(snapshot(batches[b])) = Ids(batches[b].baseRows)
     /\ \A b \in BatchIds :
          ((DnsBatchEnd(b) \/ RafFires(b) \/ RdapBatchEnd(b))
             /\ state'.dns.rows # state.dns.rows) =>
                Ids(state'.dns.rows) = Ids(batches[b].baseRows)
     /\ \A b \in BatchIds : \A id \in Domains :
          ((\E result \in DnsResults : DnsTaskDone(b, id, result))
             \/ (\E rdapResult \in RdapOutcomes : RdapTaskDone(b, id, rdapResult))) =>
                /\ batches'[b].rowOrder = batches[b].rowOrder
                /\ \A other \in DOMAIN batches[b].workingMap \ {id} :
                     batches'[b].workingMap[other] = batches[b].workingMap[other]
                /\ batches'[b].workingMap[id].id = id
                /\ state'.dns.rows = state.dns.rows]_vars

\* the RDAP task of the second row resolved first and its snapshot was
\* flushed: the rows in the state are in the order of the base rows
C20_Witness ==
  /\ \E b \in BatchIds :
       /\ batches[b].kind = "rdap"
       /\ batches[b].phase = "running"
       /\ batches[b].pending = {"a.com"}
       /\ Len(batches[b].targets) = 2
  /\ Len(state.dns.rows) = 2
  /\ state.dns.rows[1].id = "a.com"
  /\ state.dns.rows[1].rdap = NULL
  /\ state.dns.rows[2].rdap = 404
  /\ state.rdap.checkedCount = 1

(***************************************************************************)
(* Specification of one RDAP lookup: runRdapQueryWithRetry as the task of  *)
(* runRdapBatch calls it (attempts 3, delayMs 1000) for one candidate row, *)
(* and the row the task writes when the call has settled.  The responses   *)
(* are chosen by the environment, one per attempt.                         *)
(***************************************************************************)
CandidateStatuses == {st \in DnsStatuses : shouldRunRdap(st)}

\* the row of the candidate as the DNS batch left it
rdapBaseRow ==
  [id |-> "a.com", dns |-> rDns, rdap |-> NULL, verdict |-> deriveDnsVerdict(rDns),
   detail |-> IF rDns = "error"
              THEN <<"dns.detail.network-error", "dns.detail.source">>
              ELSE <<"dns.detail.source">>]

InitRdap ==
  /\ rDns \in CandidateStatuses
  /\ rPc = "request"
  /\ rAttempt = 1
  /\ rLog = <<>>
  /\ rWaits = <<>>
  /\ rReturn = <<>>
  /\ rRow = <<>>
  /\ VerdictOff
  /\ QueueOff
  /\ DohOff
  /\ AppOff
  /\ NormOff
  /\ PersistOff
  /\ LookupOff
  /\ CheckOff
  /\ InputOff
  /\ BootOff

\* await runRdapQuery(domain, queryOptions) settles in attempt rAttempt
RdapRespond(response) ==
  /\ rPc = "request"
  /\ LET settled == runRdapQuery(response) IN
     /\ rLog' = Append(rLog, [response |-> response, result |-> settled])
     /\ IF settled # <<>>
        THEN IF retryResult(settled[1], rAttempt)
             THEN /\ rWaits' = Append(rWaits, waitMs(settled[1], rAttempt))
                  /\ rPc' = "delay"
                  /\ UNCHANGED rReturn
             ELSE /\ rReturn' = settled
                  /\ rPc' = "done"
                  /\ UNCHANGED rWaits
        ELSE IF rAttempt >= rdapAttempts
             THEN /\ rPc' = "rejected"
                  /\ UNCHANGED <<rReturn, rWaits>>
             ELSE /\ rWaits' = Append(rWaits, rdapBaseDelay * rAttempt)
                  /\ rPc' = "delay"
                  /\ UNCHANGED rReturn
  /\ UNCHANGED <<rDns, rAttempt, rRow>>
  /\ UNCHANGED <<reconcileVars, queueVars, dohVars, appVars, normVars, persistVars, lookupVars, checkVars, inputVars, bootVars>>

\* await delay(...) is over: the loop goes on with the next attempt
RdapDelayElapsed ==
  /\ rPc = "delay"
  /\ rAttempt' = rAttempt + 1
  /\ rPc' = "request"
  /\ UNCHANGED <<rDns, rLog, rWaits, rReturn, rRow>>
  /\ UNCHANGED <<reconcileVars, queueVars, dohVars, appVars, normVars, persistVars, lookupVars, checkVars, inputVars, bootVars>>

\* the task of runRdapBatch continues after await runRdapQueryWithRetry(...)
RdapWriteRow ==
  /\ rPc \in {"done", "rejected"}
  /\ rPc' = IF rPc = "done" THEN "row" ELSE "fallback-row"
  /\ rRow' =
       IF rPc = "done"
       THEN <<[rdapBaseRow EXCEPT
                 !.rdap = rReturn[1].status,
                 !.verdict = deriveVerdictWithRdap(rdapBaseRow.dns, rReturn),
                 !.detail = mergeDetails(mergeDetails(rdapBaseRow.detail, <<"rdap.detail.source">>),
                                         <<rReturn[1].detailKey>>)]>>
       ELSE <<[rdapBaseRow EXCEPT
                 !.rdap = rdapBaseRow.rdap,
                 !.verdict = deriveVerdictWithRdap(rdapBaseRow.dns, <<>>),
                 !.detail = mergeDetails(rdapBaseRow.detail, <<"rdap.detail.network-error">>)]>>
  /\ UNCHANGED <<rDns, rAttempt, rLog, rWaits, rReturn>>
  /\ UNCHANGED <<reconcileVars, queueVars, dohVars, appVars, normVars, persistVars, lookupVars, checkVars, inputVars, bootVars>>

NextRdap ==
  \/ \E response \in RdapResponses : RdapRespond(response)
  \/ RdapDelayElapsed
  \/ RdapWriteRow

SpecRdap == InitRdap /\ [][NextRdap]_vars

\* --- properties of the RDAP lookup, read off the log of its attempts ---
Attempts == 1..Len(rLog)

Http(k) == rLog[k].response # <<>>

HttpStatus(k) == rLog[k].response[1].status

\* attempt k was the last one and its result is what the call returned
ReturnedAt(k) ==
  /\ Len(rLog) = k
  /\ rReturn = rLog[k].result
  /\ rReturn # <<>>

\* attempt k was followed by a wait of ms
WaitedAfter(k, ms) == Len(rWaits) >= k /\ rWaits[k] = ms

\* C11 (as stated): 404 gives available = true; 200 with a domain object
\* gives false; 200 with any other body gives null; 429 gives null and the
\* parsed Retry-After seconds when present; 400, 405 and 501 give null with
\* unsupported; every other status gives null and is not unsupported.
C11_ClassificationAsStated ==
  \A k \in Attempts :
    Http(k) =>
      /\ rLog[k].result # <<>>
      /\ LET response == rLog[k].response[1]
             result == rLog[k].result[1]
         IN /\ result.status = response.status
            /\ result.available =
                 (IF response.status = 404 THEN "true"
                  ELSE IF response.status = 200 /\ response.body = "domain" THEN "false"
                  ELSE "null")
            /\ result.unsupported = (response.status \in {400, 405, 501})
            /\ result.retryAfter =
                 (IF response.status = 429 THEN parseRetryAfter(response.retryAfter)
                  ELSE <<>>)

\* the wait the claim prescribes after a 429 with this header on attempt k
StatedWait(header, k) ==
  IF parseRetryAfter(header) # <<>> /\ parseRetryAfter(header)[1] > 0
  THEN parseRetryAfter(header)[1] * 1000
  ELSE RDAP_RETRY_DELAY_MS * k

\* C12 (as stated): a 429 on attempt k < 3 is followed by a wait of
\* Retry-After seconds if parsed and positive, else of baseDelay * k; a 429
\* on the last attempt is returned; a 200 or 404 response is returned at once;
\* there are at most 3 requests.
C12_RateLimitRetryAsStated ==
  /\ Len(rLog) <= 3
  /\ \A k \in Attempts :
       Http(k) =>
         /\ (HttpStatus(k) = 429 /\ k < 3) =>
               WaitedAfter(k, StatedWait(rLog[k].response[1].retryAfter, k))
         /\ (HttpStatus(k) = 429 /\ k = 3) => ReturnedAt(k)
         /\ HttpStatus(k) \in {200, 404} => ReturnedAt(k)

\* a failed attempt other than a 429: an exception, or a status that is
\* neither decisive (200, 404) nor unsupported (400, 405, 501)
FailedOther(k) ==
  \/ rLog[k].result = <<>>
  \/ rLog[k].result[1].status \notin {200, 404, 429, 400, 405, 501}

\* C13 (as stated): every failed attempt other than a 429, an exception or a
\* non-decisive status, is followed by a wait of baseDelay * attempt while
\* fewer than 3 attempts have been made, and reaches the row only after the
\* third attempt.
C13_FailureRetryAsStated ==
  /\ \A k \in Attempts :
       (FailedOther(k) /\ k < 3) => WaitedAfter(k, RDAP_RETRY_DELAY_MS * k)
  /\ (rRow # <<>> /\ FailedOther(Len(rLog))) => Len(rLog) = 3

\* C13 (amended): an attempt that ends in an exception is followed by a wait
\* of baseDelay * attempt while fewer than 3 attempts have been made, and by
\* the rejection of the call on the third; the row gets the network-error
\* detail only after the third attempt.  An attempt that ends in a result
\* with a status other than 429 is the last one: the result is returned and
\* is what the row is written from.
C13_FailureRetry ==
  /\ \A k \in Attempts :
       /\ (rLog[k].result = <<>> /\ k < 3) => WaitedAfter(k, RDAP_RETRY_DELAY_MS * k)
       /\ (rLog[k].result = <<>> /\ k = 3) =>
             (Len(rWaits) = 2 /\ rReturn = <<>> /\ rPc \in {"rejected", "fallback-row"})
       /\ (rLog[k].result # <<>> /\ rLog[k].result[1].status # 429) => ReturnedAt(k)
  /\ rPc = "fallback-row" =>
       /\ Len(rLog) = 3
       /\ "rdap.detail.network-error" \in SeqToSet(rRow[1].detail)
       /\ rRow[1].rdap = NULL
  /\ rPc = "row" =>
       /\ rRow[1].rdap = rReturn[1].status
       /\ "rdap.detail.network-error" \notin SeqToSet(rRow[1].detail)

\* an exception on the first attempt was retried and the 503 of the second
\* attempt went into the row at once
C13_Witness ==
  /\ rPc = "row"
  /\ Len(rLog) = 2
  /\ rLog[1].result = <<>>
  /\ rWaits = <<1000>>
  /\ rRow[1].rdap = 503

\* C14: a 400, 405 or 501 response ends the call on that attempt with
\* unsupported = true, and the row written from it has verdict
\* rdap-unsupported, as the reconciler gives for every dns status.
C14_UnsupportedNotRetried ==
  /\ \A k \in Attempts :
       (Http(k) /\ HttpStatus(k) \in {400, 405, 501}) =>
          /\ ReturnedAt(k)
          /\ rReturn[1].unsupported
          /\ Len(rWaits) = k - 1
          /\ \A st \in DnsStatuses : deriveVerdictWithRdap(st, rReturn) = "rdap-unsupported"
          /\ rRow # <<>> => (rRow[1].verdict = "rdap-unsupported" /\ rRow[1].rdap = HttpStatus(k))
  /\ (rReturn # <<>> /\ rReturn[1].unsupported) => rReturn[1].status \in {400, 405, 501}

\* a 501 on the second attempt, after a 429, has ended the call and is in the row
C14_Witness ==
  /\ rPc = "row"
  /\ Len(rLog) = 2
  /\ HttpStatus(2) = 501
  /\ rRow[1].verdict = "rdap-unsupported"
  /\ rDns = "nxdomain"

(***************************************************************************)
(* Specification of the reconciler: the arguments are drawn in Init, the   *)
(* call is one action.                                                     *)
(***************************************************************************)
RdapArgs ==
  {<<>>} \cup
  {<<[status |-> s, available |-> a, unsupported |-> u]>> :
     s \in HttpStatuses, a \in Tri, u \in BOOLEAN}

InitVerdict ==
  /\ vStatus \in DnsStatuses
  /\ vRdap \in RdapArgs
  /\ vVerdict = <<>>
  /\ QueueOff
  /\ DohOff
  /\ AppOff
  /\ RdapOff
  /\ NormOff
  /\ PersistOff
  /\ LookupOff
  /\ CheckOff
  /\ InputOff
  /\ BootOff

CallDeriveVerdictWithRdap ==
  /\ vVerdict = <<>>
  /\ vVerdict' = <<deriveVerdictWithRdap(vStatus, vRdap)>>
  /\ UNCHANGED <<vStatus, vRdap>>
  /\ UNCHANGED <<queueVars, dohVars, appVars, rdapVars, normVars, persistVars, lookupVars, checkVars, inputVars, bootVars>>

NextVerdict == CallDeriveVerdictWithRdap

SpecVerdict == InitVerdict /\ [][NextVerdict]_vars

\* C3 (as stated): with rdap = null the reconciler gives taken for has-ns,
\* undetermined for error and available for no-ns and nxdomain.
C3_NullRdapAsStated ==
  (vVerdict # <<>> /\ vRdap = <<>>) =>
     vVerdict[1] = (CASE vStatus = "has-ns" -> "taken"
                      [] vStatus = "error" -> "undetermined"
                      [] OTHER -> "available")

\* C3 (amended): with rdap = null the reconciler gives taken for has-ns and
\* undetermined for error, no-ns and nxdomain.
C3_NullRdapVerdict ==
  (vVerdict # <<>> /\ vRdap = <<>>) =>
     vVerdict[1] = (CASE vStatus = "has-ns" -> "taken"
                      [] vStatus \in {"error", "no-ns", "nxdomain"} -> "undetermined")

C3_Witness ==
  vVerdict = <<"undetermined">> /\ vRdap = <<>> /\ vStatus = "nxdomain"

\* C4: for a non-null RDAP result the verdict is decided by precedence:
\* unsupported, then available = true, then available = false, then status
\* 429, then the DNS-only rule.
C4_Precedence ==
  (vVerdict # <<>> /\ vRdap # <<>>) =>
     /\ vVerdict[1] \in Verdicts
     /\ LET r == vRdap[1] IN
        vVerdict[1] =
          (CASE r.unsupported -> "rdap-unsupported"
             [] ~r.unsupported /\ r.available = "true" -> "available"
             [] ~r.unsupported /\ r.available = "false" -> "taken"
             [] ~r.unsupported /\ r.available = "null" /\ r.status = 429 -> "undetermined"
             [] OTHER -> (CASE vStatus = "has-ns" -> "taken"
                            [] vStatus = "error" -> "undetermined"
                            [] vStatus \in {"no-ns", "nxdomain"} -> "available"))

C4_Witness ==
  /\ vVerdict = <<"rdap-unsupported">>
  /\ vRdap # <<>>
  /\ vRdap[1].unsupported /\ vRdap[1].available = "true"

\* The scheduler under the assumption that every network request completes
\* and every promise reaction runs: a running task settles, and the
\* reactions of a settled task are executed.  Submitting tasks and leaving
\* the page (clear) are up to the user.
SpecQueueFair ==
  /\ InitQueue
  /\ [][NextQueue]_vars
  /\ \A i \in TaskIds :
       /\ WF_vars(\E o \in {"fulfilled", "rejected"} : TaskSettles(i, o))
       /\ WF_vars(SettleEnqueuePromise(i))
       /\ WF_vars(Finally(i))

\* C34: if every network request completes, every promise returned by
\* enqueue eventually settles, also the promise of a task that was still
\* queued when clear() was called, so that the Promise.all of a batch
\* eventually settles.
C34_EveryPromiseSettles ==
  \A i \in TaskIds :
    (promise[i] = "pending") ~> (promise[i] \in {"fulfilled", "rejected"})

(***************************************************************************)
(* Specification of the failing batch: one DNS run and the RDAP run that   *)
(* follows it, with the catch branches of the handlers.  They are entered  *)
(* when an exception                                                       *)
(* escapes a task (thrown by t() or by dispatch in its catch / finally     *)
(* part) or the handler's own try block; the other tasks of the batch go   *)
(* on.  The Reset button is there for the stale DNS batch.                 *)
(***************************************************************************)
\* Mutant: dns/error is dispatched with the runId of the state.
DnsBatchFails_CurrentRunId(b) ==
  /\ batches[b].kind = "dns"
  /\ batches[b].phase = "running"
  /\ ~batches[b].rejected
  /\ state' = reducer(state, [type |-> "dns/error", messageKey |-> "dns.error.general",
                              runId |-> state.dns.runId])
  /\ batches' = [batches EXCEPT ![b].rejected = TRUE]
  /\ UNCHANGED <<now, rdapPageMount, pendingUpdateIdsRef, rafIdRef, rafCallbacks>>
  /\ UNCHANGED <<reconcileVars, queueVars, dohVars, rdapVars, normVars, persistVars, lookupVars, checkVars, inputVars, bootVars>>

\* the catch branch of handleRunChecks / handleRetryFailed (DnsPage)
DnsBatchFails(b) ==
  /\ batches[b].kind = "dns"
  /\ batches[b].phase = "running"
  /\ ~batches[b].rejected
  /\ state' = reducer(state, [type |-> "dns/error", messageKey |-> "dns.error.general",
                              runId |-> batches[b].runId])
  /\ batches' = [batches EXCEPT ![b].rejected = TRUE]
  /\ UNCHANGED <<now, rdapPageMount, pendingUpdateIdsRef, rafIdRef, rafCallbacks>>
  /\ UNCHANGED <<reconcileVars, queueVars, dohVars, rdapVars, normVars, persistVars, lookupVars, checkVars, inputVars, bootVars>>

\* the catch branch of runRdapBatch: flushUpdates(), then rdap/error
RdapBatchFails(b) ==
  /\ batches[b].kind = "rdap"
  /\ batches[b].phase = "running"
  /\ ~batches[b].rejected
  /\ rafIdRef' = [rafIdRef EXCEPT ![batches[b].mount] = 0]
  /\ pendingUpdateIdsRef' = [pendingUpdateIdsRef EXCEPT ![batches[b].mount] = {}]
  /\ state' = dispatchAll(state,
                flushDispatches(batches[b])
                \o <<[type |-> "rdap/error", messageKey |-> "rdap.error.general"]>>)
  /\ batches' = [batches EXCEPT ![b].rejected = TRUE]
  /\ UNCHANGED <<now, rdapPageMount, rafCallbacks>>
  /\ UNCHANGED <<reconcileVars, queueVars, dohVars, rdapVars, normVars, persistVars, lookupVars, checkVars, inputVars, bootVars>>

NextFail ==
  \/ (batches = <<>> /\ HandleRunChecks)
  \/ (Len(batches) = 1 /\ ProcessReset)
  \/ \E b \in BatchIds : \E id \in Domains : \E result \in DnsResults : DnsTaskDone(b, id, result)
  \/ \E b \in BatchIds : DnsBatchEnd(b)
  \/ \E b \in BatchIds : DnsBatchFails(b)
  \/ RdapPageRemounts
  \/ (Len(batches) = 1 /\ HandleRunRdap)
  \/ \E b \in BatchIds : \E id \in Domains : \E rdapResult \in RdapOutcomes :
       RdapTaskDone(b, id, rdapResult)
  \/ \E b \in BatchIds : RafFires(b)
  \/ \E b \in BatchIds : RdapBatchEnd(b)
  \/ \E b \in BatchIds : RdapBatchFails(b)

SpecFail == InitBatch /\ [][NextFail]_vars

\* the progress counters of the state
ProgressCounters(s) ==
  <<s.dns.totalCount, s.dns.completedCount, s.rdap.totalCount, s.rdap.checkedCount>>

\* C35: when a batch fails, dns/error of the current run and rdap/error set
\* the stage to error and record the message key, and leave dns.rows and
\* the progress counters as they were; dns/error of another run than the
\* current one changes nothing.
C35_BatchErrorKeepsRows ==
  [][\A b \in BatchIds :
       /\ DnsBatchFails(b) =>
            IF state.dns.runId = batches[b].runId
            THEN /\ state'.dns.stage = "error"
                 /\ state'.dns.errorKey = "dns.error.general"
                 /\ state'.dns.rows = state.dns.rows
                 /\ ProgressCounters(state') = ProgressCounters(state)
            ELSE state' = state
       /\ RdapBatchFails(b) =>
            LET flushed == dispatchAll(state, flushDispatches(batches[b])) IN
            /\ state'.dns.stage = "error"
            /\ state'.rdap.errorKey = "rdap.error.general"
            /\ state'.dns.rows = flushed.dns.rows
            /\ ProgressCounters(state') = ProgressCounters(flushed)]_vars

\* an RDAP batch has failed after one of its two tasks had written its row
C35_Witness ==
  /\ state # <<>>
  /\ state.dns.stage = "error"
  /\ state.rdap.errorKey = "rdap.error.general"
  /\ state.rdap.checkedCount = 1
  /\ state.rdap.totalCount = 2
  /\ \E k \in 1..Len(state.dns.rows) : state.dns.rows[k].rdap # NULL

\* C33: during an RDAP run rdap.checkedCount never exceeds rdap.totalCount
\* and never decreases (rdap/start, which begins a run, sets it to 0), also
\* while a batch that was reset or superseded is still completing tasks.
C33_RdapProgressMonotone ==
  [][(state # <<>> /\ state'.rdap.running) =>
        /\ state'.rdap.checkedCount <= state'.rdap.totalCount
        /\ (state.rdap.running /\ ~(HandleRunRdap \/ HandleRetryFailedRdap)) =>
              state'.rdap.checkedCount >= state.rdap.checkedCount]_vars

(***************************************************************************)
(* Specification of the RDAP tasks of runRdapBatch on the scheduler: every *)
(* task handed to enqueue awaits runRdapQueryWithRetry (attempts 3,        *)
(* delayMs 1000) for its domain, inside try/catch, and then fulfils.  The  *)
(* responses are chosen by the environment, one per attempt; time passes   *)
(* in steps of the base delay.                                             *)
(***************************************************************************)
LookupResponses ==
  {r \in RdapResponses :
     \/ r = <<>>
     \/ r[1].status \in {200, 404}
     \/ r[1].status = 429 /\ r[1].retryAfter \in {<<>>, <<[kind |-> "number", n |-> 2]>>}}

InitLookup ==
  /\ activeCountRef = 0
  /\ queueRef = <<>>
  /\ task = [i \in TaskIds |-> "new"]
  /\ outcome = [i \in TaskIds |-> "none"]
  /\ promise = [i \in TaskIds |-> "none"]
  /\ qAttempt = [i \in TaskIds |-> 0]
  /\ qWaitMs = [i \in TaskIds |-> <<>>]
  /\ qElapsedMs = [i \in TaskIds |-> 0]
  /\ VerdictOff
  /\ DohOff
  /\ AppOff
  /\ RdapOff
  /\ NormOff
  /\ PersistOff
  /\ CheckOff
  /\ InputOff
  /\ BootOff

\* Mutant: the task gives its slot back while it waits for the retry.
LookupAttemptEnds_FreesSlot(i, response) ==
  /\ task[i] = "running"
  /\ qWaitMs[i] = <<>>
  /\ LET attempt == qAttempt[i] + 1
         settled == runRdapQuery(response)
         again == IF settled # <<>> THEN retryResult(settled[1], attempt)
                  ELSE attempt < rdapAttempts
         wait == IF settled # <<>> THEN waitMs(settled[1], attempt)
                 ELSE rdapBaseDelay * attempt
         r == processQueue(Max(activeCountRef - 1, 0), queueRef)
     IN /\ qAttempt' = [qAttempt EXCEPT ![i] = attempt]
        /\ IF again
           THEN /\ qWaitMs' = [qWaitMs EXCEPT ![i] = <<wait>>]
                /\ activeCountRef' = r.active
                /\ queueRef' = r.q
                /\ task' = [j \in TaskIds |-> IF j \in r.started THEN "running" ELSE task[j]]
                /\ UNCHANGED outcome
           ELSE /\ task' = [task EXCEPT ![i] = "settled"]
                /\ outcome' = [outcome EXCEPT ![i] = "fulfilled"]
                /\ UNCHANGED <<qWaitMs, activeCountRef, queueRef>>
  /\ UNCHANGED <<promise, qElapsedMs>>
  /\ UNCHANGED <<reconcileVars, dohVars, appVars, rdapVars, normVars, persistVars, checkVars, inputVars, bootVars>>

\* await runRdapQuery(...) settles in the task of domain i: the loop of
\* runRdapQueryWithRetry calls delay() and goes on, or the call returns or
\* throws, the task writes its row and its promise fulfils
LookupAttemptEnds(i, response) ==
  /\ task[i] = "running"
  /\ qWaitMs[i] = <<>>
  /\ LET attempt == qAttempt[i] + 1
         settled == runRdapQuery(response)
         again == IF settled # <<>> THEN retryResult(settled[1], attempt)
                  ELSE attempt < rdapAttempts
         wait == IF settled # <<>> THEN waitMs(settled[1], attempt)
                 ELSE rdapBaseDelay * attempt
     IN /\ qAttempt' = [qAttempt EXCEPT ![i] = attempt]
        /\ IF again
           THEN /\ qWaitMs' = [qWaitMs EXCEPT ![i] = <<wait>>]
                /\ UNCHANGED <<task, outcome>>
           ELSE /\ task' = [task EXCEPT ![i] = "settled"]
                /\ outcome' = [outcome EXCEPT ![i] = "fulfilled"]
                /\ UNCHANGED qWaitMs
  /\ UNCHANGED <<activeCountRef, queueRef, promise, qElapsedMs>>
  /\ UNCHANGED <<reconcileVars, dohVars, appVars, rdapVars, normVars, persistVars, checkVars, inputVars, bootVars>>

\* the timers that are not yet due
Waiting == {i \in TaskIds : qWaitMs[i] # <<>> /\ qElapsedMs[i] < Max(qWaitMs[i][1], 0)}

\* time passes for every timer
TimePasses ==
  /\ Waiting # {}
  /\ qElapsedMs' = [i \in TaskIds |->
                      IF i \in Waiting THEN qElapsedMs[i] + rdapBaseDelay ELSE qElapsedMs[i]]
  /\ UNCHANGED <<qAttempt, qWaitMs>>
  /\ UNCHANGED <<reconcileVars, queueVars, dohVars, appVars, rdapVars, normVars, persistVars, checkVars, inputVars, bootVars>>

\* delay(durationMs): setTimeout(resolve, Math.max(durationMs, 0))
delayIsOver(durationMs, elapsedMs) == elapsedMs >= Max(durationMs, 0)

\* await delay(...) is over in the task of domain i: the next request is sent
LookupDelayElapsed(i) ==
  /\ task[i] = "running"
  /\ qWaitMs[i] # <<>>
  /\ delayIsOver(qWaitMs[i][1], qElapsedMs[i])
  /\ qWaitMs' = [qWaitMs EXCEPT ![i] = <<>>]
  /\ qElapsedMs' = [qElapsedMs EXCEPT ![i] = 0]
  /\ UNCHANGED qAttempt
  /\ UNCHANGED <<reconcileVars, queueVars, dohVars, appVars, rdapVars, normVars, persistVars, checkVars, inputVars, bootVars>>

NextLookup ==
  \/ \E i \in TaskIds : Enqueue(i)
  \/ \E i \in TaskIds, response \in LookupResponses : LookupAttemptEnds(i, response)
  \/ TimePasses
  \/ \E i \in TaskIds : LookupDelayElapsed(i)
  \/ \E i \in TaskIds : SettleEnqueuePromise(i)
  \/ \E i \in TaskIds : Finally(i)
  \/ Clear

SpecLookup == InitLookup /\ [][NextLookup]_vars

\* the domains whose task is between its first request and its result
Requesting == {i \in TaskIds : task[i] = "running" /\ qWaitMs[i] = <<>>}

BackingOff == {i \in TaskIds : task[i] = "running" /\ qWaitMs[i] # <<>>}

\* the tasks that hold a slot of the scheduler
SlotHolders == {i \in TaskIds : task[i] \in {"running", "settled"}}

\* C32: a domain's RDAP attempts and waits take place inside one scheduler
\* task.  The task holds one slot from its first request to its result, so
\* that at most QueueConcurrency domains are requesting or backing off; a
\* task that backs off stays the running task of its slot; and the request
\* that follows a wait is sent only when the wait has elapsed.
C32_BackoffInsideTask ==
  [][/\ Cardinality(Requesting \cup BackingOff) <= QueueConcurrency
     /\ activeCountRef = Cardinality(SlotHolders)
     /\ \A i \in BackingOff :
          /\ task'[i] = "running"
          /\ (i \in Requesting') => (qElapsedMs[i] >= qWaitMs[i][1] /\ qAttempt[i] < rdapAttempts)
     /\ \A i \in TaskIds : (i \in BackingOff' /\ i \notin BackingOff) => i \in Requesting
     /\ \A i \in Requesting' \ (Requesting \cup BackingOff) :
          qAttempt'[i] = 0 /\ activeCountRef' <= QueueConcurrency]_vars

\* a rate-limited domain waits for its second retry while a slot is free:
\* every other domain has been submitted and has its result
C32_Witness ==
  /\ \E i \in BackingOff :
       /\ qAttempt[i] = 2
       /\ qElapsedMs[i] < qWaitMs[i][1]
       /\ \A j \in TaskIds \ {i} : task[j] = "finished"
  /\ queueRef = <<>>
  /\ activeCountRef < QueueConcurrency
  /\ \E i \in TaskIds : task[i] = "finished"

(***************************************************************************)
(* App.tsx: handleCheck of the single-component flow.                      *)
(* A call is [runId, pc, count, dnsRows]: runId is its currentRunId (0     *)
(* when it returned before taking one), pc the await it is suspended at    *)
(* ("dns", "rdap") or "ended", count is result.domains.length and dnsRows  *)
(* its local of that name; the locals of a call that has ended are         *)
(* cleared.  A row is [call, id, dns, rdap]: the call that computed it,    *)
(* its position in the input and its two results.  runDnsChecks and        *)
(* runRdapChecks are represented by how they end: they throw (<<>>), or    *)
(* return with the DNS status, or the RDAP status, of every row.           *)
(***************************************************************************)
MaxChecks == 3

CallIds == 1..Len(aCalls)

\* result.domains.length for the texts that are checked
CheckDomainCounts == {0, 1, 2}

\* shouldRunRdap of App.tsx
AppShouldRunRdap(status) == status = "no-ns" \/ status = "nxdomain"

\* what await runDnsChecks gives in call k: an exception, or the rows with
\* the DNS status found for each domain
DnsChecksEndings(k) ==
  {<<>>} \cup {<<found>> : found \in [1..aCalls[k].count -> {"has-ns", "nxdomain"}]}

\* what await runRdapChecks gives in call k: an exception, or for each row
\* of dnsRows the RDAP status written into it, NULL when the row is no
\* candidate or its lookup rejected
RdapChecksEndings(k) ==
  {<<>>} \cup
  {<<found>> : found \in
     {f \in [1..Len(aCalls[k].dnsRows) -> {NULL, 404}] :
        \A i \in 1..Len(aCalls[k].dnsRows) :
          ~AppShouldRunRdap(aCalls[k].dnsRows[i].dns) => f[i] = NULL}}

\* the rows runDnsChecks returns
runDnsChecks(k, found) ==
  [i \in 1..Len(found) |-> [call |-> k, id |-> i, dns |-> found[i], rdap |-> NULL]]

\* the rows runRdapChecks returns
runRdapChecks(rows, found) ==
  [i \in 1..Len(rows) |->
     IF AppShouldRunRdap(rows[i].dns) THEN [rows[i] EXCEPT !.rdap = found[i]] ELSE rows[i]]

\* the call record of a handleCheck that has returned
returned(call) == [call EXCEPT !.pc = "ended", !.count = 0, !.dnsRows = <<>>]

InitCheck ==
  /\ aRunIdRef = 0
  /\ aCalls = <<>>
  /\ aView = [parseResult |-> 0, checkState |-> "idle", rows |-> <<>>,
              rdapCheckedCount |-> 0, errorMessageKey |-> "null"]
  /\ VerdictOff
  /\ QueueOff
  /\ DohOff
  /\ AppOff
  /\ RdapOff
  /\ NormOff
  /\ PersistOff
  /\ LookupOff
  /\ InputOff
  /\ BootOff

\* handleCheck up to its return or its first await; count is
\* result.domains.length
HandleCheck(count) ==
  /\ Len(aCalls) < MaxChecks
  /\ LET call == Len(aCalls) + 1
         currentRunId == aRunIdRef + 1
     IN IF count = 0
        THEN /\ aView' = [parseResult |-> call, checkState |-> "idle", rows |-> <<>>,
                          rdapCheckedCount |-> 0, errorMessageKey |-> "null"]
             /\ aCalls' = Append(aCalls, [runId |-> 0, pc |-> "ended", count |-> 0,
                                          dnsRows |-> <<>>])
             /\ UNCHANGED aRunIdRef
        ELSE /\ aView' = [parseResult |-> call, checkState |-> "dns-checking", rows |-> <<>>,
                          rdapCheckedCount |-> 0, errorMessageKey |-> "null"]
             /\ aRunIdRef' = currentRunId
             /\ aCalls' = Append(aCalls, [runId |-> currentRunId, pc |-> "dns",
                                          count |-> count, dnsRows |-> <<>>])
  /\ UNCHANGED <<reconcileVars, queueVars, dohVars, appVars, rdapVars, normVars, persistVars, lookupVars, inputVars, bootVars>>

\* await runDnsChecks(...) is over in call k, which runs to its next await
\* or to its end
DnsChecksSettle(k, ending) ==
  /\ aCalls[k].pc = "dns"
  /\ LET currentRunId == aCalls[k].runId IN
     IF ending = <<>>
     THEN /\ aView' = IF aRunIdRef = currentRunId
                      THEN [aView EXCEPT !.checkState = "error",
                                         !.errorMessageKey = "dns.error.general"]
                      ELSE aView
          /\ aCalls' = [aCalls EXCEPT ![k] = returned(@)]
     ELSE IF aRunIdRef # currentRunId
     THEN /\ aCalls' = [aCalls EXCEPT ![k] = returned(@)]
          /\ UNCHANGED aView
     ELSE LET dnsRows == runDnsChecks(k, ending[1])
              candidates == SelectSeq(dnsRows, LAMBDA row : AppShouldRunRdap(row.dns))
          IN IF Len(candidates) > 0
             THEN /\ aView' = [aView EXCEPT !.rows = dnsRows,
                                            !.checkState = "rdap-checking"]
                  /\ aCalls' = [aCalls EXCEPT ![k].pc = "rdap", ![k].dnsRows = dnsRows]
             ELSE /\ aView' = [aView EXCEPT !.rows = dnsRows,
                                            !.checkState = "done"]
                  /\ aCalls' = [aCalls EXCEPT ![k] = returned(@)]
  /\ UNCHANGED aRunIdRef
  /\ UNCHANGED <<reconcileVars, queueVars, dohVars, appVars, rdapVars, normVars, persistVars, lookupVars, inputVars, bootVars>>

\* await runRdapChecks(...) is over in call k, which runs to its end
RdapChecksSettle(k, ending) ==
  /\ aCalls[k].pc = "rdap"
  /\ LET currentRunId == aCalls[k].runId IN
     IF ending = <<>>
     THEN aView' = IF aRunIdRef = currentRunId
                   THEN [aView EXCEPT !.checkState = "error",
                                      !.errorMessageKey = "rdap.error.general"]
                   ELSE aView
     ELSE IF aRunIdRef # currentRunId
     THEN UNCHANGED aView
     ELSE LET finalRows == runRdapChecks(aCalls[k].dnsRows, ending[1])
          IN aView' = [aView EXCEPT
                         !.rows = finalRows,
                         !.rdapCheckedCount =
                            Len(SelectSeq(finalRows, LAMBDA row : row.rdap # NULL)),
                         !.checkState = "done"]
  /\ aCalls' = [aCalls EXCEPT ![k] = returned(@)]
  /\ UNCHANGED aRunIdRef
  /\ UNCHANGED <<reconcileVars, queueVars, dohVars, appVars, rdapVars, normVars, persistVars, lookupVars, inputVars, bootVars>>

NextCheck ==
  \/ \E count \in CheckDomainCounts : HandleCheck(count)
  \/ \E k \in CallIds : \E ending \in DnsChecksEndings(k) : DnsChecksSettle(k, ending)
  \/ \E k \in CallIds : \E ending \in RdapChecksEndings(k) : RdapChecksSettle(k, ending)

SpecCheck == InitCheck /\ [][NextCheck]_vars

\* call k goes on after one of its awaits in this step
Resumes(k) == aCalls[k].pc # "ended" /\ aCalls'[k].pc # aCalls[k].pc

\* C36: once a later handleCheck call has begun, with or without a valid
\* domain in its input, an earlier call that goes on after awaiting its DNS
\* or RDAP results calls none of setRows, setCheckState,
\* setRdapCheckedCount and setErrorMessageKey.
C36_StaleCheckWritesNothing ==
  [][\A k \in CallIds : (Resumes(k) /\ k < Len(aCalls)) => aView' = aView]_vars

(***************************************************************************)
(* useAppState.tsx: the input actions of the reducer over domain items     *)
(* with their spelling.  An item is [display, ascii], both strings (the    *)
(* sequences of their characters); its tld is extractTld(ascii) when the   *)
(* payload gives none.  Of the state the actions write, input.domains,     *)
(* dns.runId and dns.rows are kept; the rows are named by their ids.       *)
(***************************************************************************)
MaxEdits == 3

\* normalizeDomainItem: ascii trimmed and lower-cased, display trimmed or,
\* when blank, the ascii
normalizeDomainItem(item) ==
  LET ascii == toLowerCase(trim(item.ascii))
  IN [display |-> IF trim(item.display) # <<>> THEN trim(item.display) ELSE ascii,
      ascii |-> ascii]

\* the items of a list whose ascii occurs at no earlier position
firstByAscii(items) ==
  SelectSeq([k \in 1..Len(items) |-> [item |-> items[k], k |-> k]],
            LAMBDA e : \A j \in 1..(e.k - 1) : items[j].ascii # e.item.ascii)

dedupeDomainItems(domains) ==
  LET normalized == [k \in 1..Len(domains) |-> normalizeDomainItem(domains[k])]
      kept == firstByAscii(normalized)
  IN [k \in 1..Len(kept) |-> kept[k].item]

\* Mutant: the incoming item is looked up by the ascii it came with.
mergeDomainItems_RawLookup(existing, incoming) ==
  LET seen == {toLowerCase(existing[k].ascii) : k \in 1..Len(existing)}
      kept == firstByAscii(incoming)
      fresh == SelectSeq([k \in 1..Len(kept) |-> kept[k].item],
                         LAMBDA item : item.ascii \notin seen)
  IN IF Len(incoming) = 0 \/ Len(fresh) = 0
     THEN [domains |-> existing, added |-> 0]
     ELSE [domains |-> existing \o [k \in 1..Len(fresh) |-> normalizeDomainItem(fresh[k])],
           added |-> Len(fresh)]

\* mergeDomains: the normalized incoming items whose ascii is not in the list
\* and not earlier in the payload are appended
mergeDomainItems(existing, incoming) ==
  LET seen == {toLowerCase(existing[k].ascii) : k \in 1..Len(existing)}
      fresh == SelectSeq(dedupeDomainItems(incoming), LAMBDA item : item.ascii \notin seen)
  IN IF Len(incoming) = 0 \/ Len(fresh) = 0
     THEN [domains |-> existing, added |-> 0]
     ELSE [domains |-> existing \o fresh, added |-> Len(fresh)]

\* areDomainListsEqual: same ascii, display and tld at every position
domainItemListsEqual(a, b) ==
  /\ Len(a) = Len(b)
  /\ \A k \in 1..Len(a) :
       /\ a[k].ascii = b[k].ascii
       /\ a[k].display = b[k].display
       /\ extractTld(a[k].ascii) = extractTld(b[k].ascii)

inputReducer(s, a) ==
  CASE a.type = "input/setDomains" ->
         LET normalized == dedupeDomainItems(a.domains) IN
         IF domainItemListsEqual(s.input, normalized) THEN s
         ELSE [input |-> normalized, runId |-> s.runId + 1, rows |-> <<>>]
    [] a.type = "input/appendDomains" ->
         LET m == mergeDomainItems(s.input, a.domains) IN
         IF m.added = 0 THEN s
         ELSE [input |-> m.domains, runId |-> s.runId + 1, rows |-> <<>>]
    [] a.type = "input/clear" ->
         IF Len(s.input) = 0 THEN s
         ELSE [input |-> <<>>, runId |-> s.runId + 1, rows |-> <<>>]
    [] a.type = "dns/success" ->
         [s EXCEPT !.rows = a.rows]

\* the spellings of the payload items: two domains, one of them also in
\* upper case and with a space in front
ItemSpellings ==
  {<<"a", ".", "b">>, <<"A", ".", "b">>, <<" ", "a", ".", "b">>, <<"b", ".", "a">>}

PayloadItems ==
  {[display |-> d, ascii |-> s] : d \in {<<>>, <<"A", ".", "b">>}, s \in ItemSpellings}

Payloads ==
  {<<>>} \cup {<<x>> : x \in PayloadItems} \cup {<<x, y>> : x \in PayloadItems, y \in PayloadItems}

\* the list restored from sessionStorage is one the reducer has written
InitInput ==
  /\ \E persisted \in {<<>>, <<[display |-> <<"A", ".", "b">>, ascii |-> <<"a", ".", "b">>]>>} :
       iState = [input |-> persisted, runId |-> 0, rows |-> <<>>]
  /\ iLast = <<>>
  /\ iEdits = 0
  /\ VerdictOff
  /\ QueueOff
  /\ DohOff
  /\ AppOff
  /\ RdapOff
  /\ NormOff
  /\ PersistOff
  /\ LookupOff
  /\ CheckOff
  /\ BootOff

Dispatch(a) ==
  /\ iEdits < MaxEdits
  /\ iEdits' = iEdits + 1
  /\ iLast' = <<a>>
  /\ iState' = inputReducer(iState, a)
  /\ UNCHANGED <<reconcileVars, queueVars, dohVars, appVars, rdapVars, normVars, persistVars, lookupVars, checkVars, bootVars>>

SetDomains(domains) == Dispatch([type |-> "input/setDomains", domains |-> domains])

AppendDomains(domains) == Dispatch([type |-> "input/appendDomains", domains |-> domains])

ClearDomains == Dispatch([type |-> "input/clear", domains |-> <<>>])

\* a run over the list has ended and has written its rows
RowsWritten ==
  /\ Len(iState.input) > 0
  /\ iState.rows = <<>>
  /\ iState' = inputReducer(iState, [type |-> "dns/success",
                                     rows |-> [k \in 1..Len(iState.input) |-> iState.input[k].ascii]])
  /\ UNCHANGED <<iLast, iEdits>>
  /\ UNCHANGED <<reconcileVars, queueVars, dohVars, appVars, rdapVars, normVars, persistVars, lookupVars, checkVars, bootVars>>

NextInput ==
  \/ \E domains \in Payloads : SetDomains(domains)
  \/ \E domains \in Payloads : AppendDomains(domains)
  \/ ClearDomains
  \/ RowsWritten

SpecInput == InitInput /\ [][NextInput]_vars

\* the lower-cased ascii values of a list
LowerAsciis(items) == {toLowerCase(items[k].ascii) : k \in 1..Len(items)}

\* C37: after any sequence of input/setDomains, input/appendDomains and
\* input/clear no two entries of input.domains have the same lower-cased
\* ascii; and input/appendDomains with a payload whose domains are all in
\* the list already, in any letter case, returns the state it was given:
\* the list, runId and the rows are the same.
C37_InputListUnique ==
  [][/\ \A j, k \in 1..Len(iState'.input) :
          toLowerCase(iState'.input[j].ascii) = toLowerCase(iState'.input[k].ascii) => j = k
     /\ (/\ iEdits' = iEdits + 1
         /\ iLast'[1].type = "input/appendDomains"
         /\ LowerAsciis(iLast'[1].domains) \subseteq LowerAsciis(iState.input))
        => iState' = iState]_vars

\* a domain of the list has been appended again in upper case after a run
\* had written its rows, and the rows are still there
C37_Witness ==
  /\ iLast # <<>>
  /\ iLast[1].type = "input/appendDomains"
  /\ \E k \in 1..Len(iLast[1].domains) : iLast[1].domains[k].ascii = <<"A", ".", "b">>
  /\ Len(iState.input) = 2
  /\ iState.rows # <<>>
  /\ iState.runId = 2

(***************************************************************************)
(* The RDAP client that finds the server of a TLD in the IANA bootstrap    *)
(* file (unnamed/part_012).                                                *)
(* A call of runRdapQueryWithRetry is [tld, pc, attempt, load, lookups,    *)
(* bootFailures, result]: pc is the await it is suspended at               *)
(* ("await-index", "await-lookup", "delay") or how it ended ("returned",   *)
(* "rejected"), load the bootstrap request whose promise it awaited last,  *)
(* lookups the domain requests it has sent, bootFailures the attempts that *)
(* ended with a failed bootstrap request.  A response of a domain request  *)
(* is a response of fetch as in rdapQuery.ts.  The bootstrap file lists    *)
(* one server for the TLDs of IndexTlds.                                   *)
(***************************************************************************)
MaxQueries == 2

IndexTlds == {"com"}

QueryTlds == {"com", "zz"}

\* the responses of the domain request: fetch rejects, 200 with each body,
\* 404, 429 without and with a Retry-After header, 501 and 503
DomainResponses ==
  {r \in RdapResponses :
     \/ r = <<>>
     \/ r[1].status \in {200, 404, 501, 503}
     \/ r[1].status = 429 /\ r[1].retryAfter \in {<<>>, <<[kind |-> "number", n |-> 2]>>}}

BootstrapMissing ==
  RdapCheckResult(0, "null", TRUE, "rdap.detail.bootstrap-missing", <<>>)

\* Mutant: a TLD without an entry is sent to the server of the first entry.
resolveEndpointCandidates_Fallback(tld, index) ==
  IF tld \in index THEN <<tld>> ELSE <<"com">>

\* resolveEndpointCandidates after the index has been loaded: one candidate
\* per server of the TLD
resolveEndpointCandidates(tld, index) ==
  IF tld \in index THEN <<tld>> ELSE <<>>

\* runRdapQuery, the loop over the one candidate of the TLD: <<>> when the
\* call throws (fetch or response.json() rejects, lastNetworkError), else
\* << result >>: returned from inside the loop for 404, 429 and 200, and
\* lastFailedResult after the loop for every other status
lookupResult(response) ==
  IF response = <<>> THEN <<>>
  ELSE LET status == response[1].status IN
    IF status = 404 THEN <<RdapCheckResult(404, "true", FALSE, "rdap.detail.status-404", <<>>)>>
    ELSE IF status = 429 THEN
      LET retryAfter == parseRetryAfter(response[1].retryAfter)
          given == retryAfter # <<>> /\ retryAfter[1] # 0
      IN <<RdapCheckResult(429, "null", FALSE,
                      IF given THEN "rdap.detail.status-429-wait" ELSE "rdap.detail.status-429",
                      IF given THEN retryAfter ELSE <<>>)>>
    ELSE IF status = 200 THEN
      IF response[1].body = "not-json" THEN <<>>
      ELSE LET isDomainObject == response[1].body = "domain" IN
           <<RdapCheckResult(200, IF isDomainObject THEN "false" ELSE "null", FALSE,
                        IF isDomainObject THEN "rdap.detail.status-200"
                        ELSE "rdap.detail.unexpected-object", <<>>)>>
    ELSE IF status = 501 \/ status = 400 \/ status = 405
      THEN <<RdapCheckResult(status, "null", TRUE, "rdap.detail.unsupported", <<>>)>>
    ELSE IF status >= 500
      THEN <<RdapCheckResult(status, "null", FALSE, "rdap.detail.server-error", <<>>)>>
    ELSE <<RdapCheckResult(status, "null", FALSE, "rdap.detail.http-error", <<>>)>>

\* Mutant: every call makes its own bootstrap request.
loadRdapServiceIndex_NoCache(current, loads) ==
  [promise |-> Len(loads) + 1, loads |-> Append(loads, "pending")]

\* loadRdapServiceIndex: the promise of the module, made by a bootstrap
\* request when there is none
loadRdapServiceIndex(current, loads) ==
  IF current = 0
  THEN [promise |-> Len(loads) + 1, loads |-> Append(loads, "pending")]
  ELSE [promise |-> current, loads |-> loads]

QueryIds == 1..Len(bCalls)

InitBoot ==
  /\ bPromise = 0
  /\ bLoads = <<>>
  /\ bCalls = <<>>
  /\ VerdictOff
  /\ QueueOff
  /\ DohOff
  /\ AppOff
  /\ RdapOff
  /\ NormOff
  /\ PersistOff
  /\ LookupOff
  /\ CheckOff
  /\ InputOff

\* runRdapQueryWithRetry(domain) is called and runs to await
\* loadRdapServiceIndex() of its first attempt
StartQuery(tld) ==
  /\ Len(bCalls) < MaxQueries
  /\ LET l == loadRdapServiceIndex(bPromise, bLoads) IN
       /\ bPromise' = l.promise
       /\ bLoads' = l.loads
       /\ bCalls' = Append(bCalls, [tld |-> tld, pc |-> "await-index", attempt |-> 1,
                                    load |-> l.promise, lookups |-> 0, bootFailures |-> 0,
                                    result |-> <<>>])
  /\ UNCHANGED <<reconcileVars, queueVars, dohVars, appVars, rdapVars, normVars, persistVars, lookupVars, checkVars, inputVars>>

\* the bootstrap request settles: the index is built, or the request or
\* response.json() fails or the status is not ok and the catch handler
\* resets the promise of the module
BootstrapSettles(l, ok) ==
  /\ bLoads[l] = "pending"
  /\ bLoads' = [bLoads EXCEPT ![l] = IF ok THEN "ok" ELSE "failed"]
  /\ bPromise' = IF ok THEN bPromise ELSE 0
  /\ UNCHANGED bCalls
  /\ UNCHANGED <<reconcileVars, queueVars, dohVars, appVars, rdapVars, normVars, persistVars, lookupVars, checkVars, inputVars>>

\* call c goes on after await loadRdapServiceIndex()
IndexRead(c) ==
  /\ bCalls[c].pc = "await-index"
  /\ bLoads[bCalls[c].load] # "pending"
  /\ LET call == bCalls[c] IN
     IF bLoads[call.load] = "failed"
     THEN bCalls' = [bCalls EXCEPT ![c].bootFailures = @ + 1,
                                   ![c].pc = IF call.attempt >= rdapAttempts
                                             THEN "rejected" ELSE "delay"]
     ELSE IF resolveEndpointCandidates(call.tld, IndexTlds) = <<>>
     THEN bCalls' = [bCalls EXCEPT ![c].pc = IF retryResult(BootstrapMissing, call.attempt)
                                             THEN "delay" ELSE "returned",
                                   ![c].result = <<BootstrapMissing>>]
     ELSE bCalls' = [bCalls EXCEPT ![c].pc = "await-lookup", ![c].lookups = @ + 1]
  /\ UNCHANGED <<bPromise, bLoads>>
  /\ UNCHANGED <<reconcileVars, queueVars, dohVars, appVars, rdapVars, normVars, persistVars, lookupVars, checkVars, inputVars>>

\* the domain request of call c settles
LookupSettles(c, response) ==
  /\ bCalls[c].pc = "await-lookup"
  /\ LET call == bCalls[c]
         settled == lookupResult(response)
     IN IF settled = <<>>
        THEN bCalls' = [bCalls EXCEPT ![c].pc = IF call.attempt >= rdapAttempts
                                                THEN "rejected" ELSE "delay"]
        ELSE bCalls' = [bCalls EXCEPT ![c].pc = IF retryResult(settled[1], call.attempt)
                                                THEN "delay" ELSE "returned",
                                      ![c].result = settled]
  /\ UNCHANGED <<bPromise, bLoads>>
  /\ UNCHANGED <<reconcileVars, queueVars, dohVars, appVars, rdapVars, normVars, persistVars, lookupVars, checkVars, inputVars>>

\* await delay(...) is over in call c: the next attempt runs to its await
\* loadRdapServiceIndex()
NextAttempt(c) ==
  /\ bCalls[c].pc = "delay"
  /\ LET l == loadRdapServiceIndex(bPromise, bLoads) IN
       /\ bPromise' = l.promise
       /\ bLoads' = l.loads
       /\ bCalls' = [bCalls EXCEPT ![c].pc = "await-index", ![c].attempt = @ + 1,
                                   ![c].load = l.promise]
  /\ UNCHANGED <<reconcileVars, queueVars, dohVars, appVars, rdapVars, normVars, persistVars, lookupVars, checkVars, inputVars>>

NextBoot ==
  \/ \E tld \in QueryTlds : StartQuery(tld)
  \/ \E l \in 1..Len(bLoads), ok \in BOOLEAN : BootstrapSettles(l, ok)
  \/ \E c \in QueryIds : IndexRead(c)
  \/ \E c \in QueryIds, response \in DomainResponses : LookupSettles(c, response)
  \/ \E c \in QueryIds : NextAttempt(c)

SpecBoot == InitBoot /\ [][NextBoot]_vars

\* C38: a call for a domain whose TLD has no entry in the bootstrap index
\* sends no domain request; when it has read the index it returns the
\* result unsupported = true with available = null in that attempt: the
\* only waits of the call are those after a failed bootstrap request.
C38_MissingTldUnsupported ==
  \A c \in QueryIds :
    bCalls[c].tld \notin IndexTlds =>
      /\ bCalls[c].lookups = 0
      /\ bCalls[c].pc # "await-lookup"
      /\ bCalls[c].pc = "delay" => bCalls[c].attempt = bCalls[c].bootFailures
      /\ bCalls[c].pc \in {"await-index", "returned"} =>
           bCalls[c].attempt = bCalls[c].bootFailures + 1
      /\ bCalls[c].pc = "returned" =>
           /\ bCalls[c].result # <<>>
           /\ bCalls[c].result[1].unsupported
           /\ bCalls[c].result[1].available = "null"
           /\ bLoads[bCalls[c].load] = "ok"

\* a call for a TLD without entry has returned in its first attempt while a
\* call for a listed TLD has sent a domain request
C38_Witness ==
  /\ \E c \in QueryIds :
       /\ bCalls[c].tld = "zz"
       /\ bCalls[c].pc = "returned"
       /\ bCalls[c].attempt = 1
  /\ \E c \in QueryIds : bCalls[c].tld = "com" /\ bCalls[c].lookups > 0

\* the bootstrap requests that are in flight or have succeeded
LiveLoads == {l \in 1..Len(bLoads) : bLoads[l] \in {"pending", "ok"}}

\* C39: while a bootstrap request is in flight or after one has succeeded
\* no other bootstrap request is made: a call that begins an attempt awaits
\* the promise of that request, and every call that has read the index has
\* it from that one request; a bootstrap request is made only when all
\* earlier ones have failed.
C39_BootstrapLoadedOnce ==
  [][/\ Cardinality(LiveLoads) <= 1
     /\ Len(bLoads') > Len(bLoads) => \A l \in 1..Len(bLoads) : bLoads[l] = "failed"
     /\ \A c \in 1..Len(bCalls') :
          (c > Len(bCalls) \/ bCalls'[c].attempt # bCalls[c].attempt) =>
             /\ bCalls'[c].load \in LiveLoads'
             /\ LiveLoads # {} => bCalls'[c].load \in LiveLoads
     /\ \A c \in 1..Len(bCalls') :
          bCalls'[c].pc \in {"await-lookup", "returned"} => bCalls'[c].load \in LiveLoads']_vars

\* a second bootstrap request was made after the first had failed; it has
\* succeeded, and two calls have read its index
C39_Witness ==
  /\ Len(bLoads) = 2
  /\ bLoads[1] = "failed"
  /\ bLoads[2] = "ok"
  /\ Len(bCalls) = 2
  /\ \A c \in QueryIds : bCalls[c].load = 2 /\ bCalls[c].pc \in {"await-lookup", "returned"}

====
